---- MODULE Spec2Model ----
(***************************************************************************)
(* NEO-6M GPS time sync (Arduino sketch, variant src/unnamed/part_001).    *)
(* The serial framer ProcessGPS, the checksum codec, the sentence          *)
(* classifiers TimeSource / SyncTimeToGPS and the loop() that drives them, *)
(* as a state machine over bytes.  Bytes are integers 0..255, C strings    *)
(* are sequences of bytes, the frame buffer is a function on               *)
(* 0..GpsResponseSize-1.  The target is an 8-bit AVR: int is 16 bits, char *)
(* is signed, a pointer is 2 bytes, time_t is an unsigned 32-bit integer.  *)
(***************************************************************************)
EXTENDS Integers, Sequences, FiniteSets, TLC

(***************************************************************************)
(* Bounds of the model.                                                    *)
(***************************************************************************)
\* segments the receiver emits in one run
MaxSends == 2
\* bytes that may wait in the serial receive buffer
MaxRx == 1
\* bytes a command body has after "$PUB" when the codec is called on its own
MaxTail == 2
\* seconds the clock may advance in one run
MaxTicks == 1
\* power cycles the sketch goes through
MaxCycles == 1

(***************************************************************************)
(* Program constants.                                                      *)
(***************************************************************************)
GpsResponseSize == 100
SprintBufSize == 50
\* GPSTime.ino: sizeof(gpsResponse), sizeof(pubx40), SYNC_TIME_T_TO_GPS
GPSTime_ResponseSize == 200
GPSTime_Pubx40Size == 40
SYNC_TIME_T_TO_GPS == 60
NMEA_CYCLE_REPORT == 10
READ_EVERY == 5
IntBits == 16
PtrSize == 2

NUL == 0
LF == 10
CR == 13
Dollar == 36
Star == 42
Comma == 44
Ch0 == 48
Ch1 == 49
Ch2 == 50
Ch3 == 51

(***************************************************************************)
(* Integer helpers: 16-bit two's complement patterns and bit macros.       *)
(***************************************************************************)
Pow2(n) == 2 ^ n

RECURSIVE BitXor(_, _)
BitXor(a, b) ==
  IF a = 0 THEN b
  ELSE IF b = 0 THEN a
  ELSE (((a % 2) + (b % 2)) % 2) + 2 * BitXor(a \div 2, b \div 2)

\* (char)b promoted to int, as the bit pattern of a 16-bit int
CharToInt(b) == IF b >= 128 THEN Pow2(IntBits) - 256 + b ELSE b

\* value of an int whose bit pattern is u
ToSigned(u) == IF u >= Pow2(IntBits - 1) THEN u - Pow2(IntBits) ELSE u

\* Arduino bitRead / bitSet / bitClear on _gpsStatus
bitRead(v, n) == (v \div Pow2(n)) % 2
bitSet(v, n) == IF bitRead(v, n) = 1 THEN v ELSE v + Pow2(n)
bitClear(v, n) == IF bitRead(v, n) = 1 THEN v - Pow2(n) ELSE v

(***************************************************************************)
(* C string helpers.  A buffer is a function on 0..n-1; a C string is the  *)
(* bytes before the first NUL.                                             *)
(***************************************************************************)
Zeroed(n) == [i \in 0 .. n - 1 |-> NUL]

BufSize(buf) == Cardinality(DOMAIN buf)

StrLenAt(buf, i) ==
  LET nuls == {k \in DOMAIN buf : k >= i /\ buf[k] = NUL}
  IN IF i >= BufSize(buf) THEN 0
     ELSE IF nuls = {} THEN BufSize(buf) - i
     ELSE (CHOOSE k \in nuls : \A j \in nuls : k <= j) - i

strlen(buf) == StrLenAt(buf, 0)

\* byte at index i of the buffer; indices past the array read as NUL
At(buf, i) == IF i \in DOMAIN buf THEN buf[i] ELSE NUL

\* the C string held in buf, as a sequence
CStr(buf) == [k \in 1 .. strlen(buf) |-> buf[k - 1]]

\* a sequence stored at the start of a zeroed buffer of n bytes
ToBuf(s, n) == [i \in 0 .. n - 1 |-> IF i < Len(s) THEN s[i + 1] ELSE NUL]

MatchAt(buf, pat, i) == \A k \in 1 .. Len(pat) : At(buf, i + k - 1) = pat[k]

\* strstr: index of the first occurrence of pat in the C string, -1 for NULL
strstr(buf, pat) ==
  LET n == strlen(buf)
      hits == {i \in 0 .. n - 1 : i + Len(pat) <= n /\ MatchAt(buf, pat, i)}
  IN IF hits = {} THEN -1 ELSE CHOOSE i \in hits : \A j \in hits : i <= j

IsDigit(c) == c >= 48 /\ c <= 57
IsSpace(c) == c = 32 \/ (c >= 9 /\ c <= 13)

\* atoi of the two-character string subString (third byte is NUL)
atoi2(c0, c1) ==
  IF IsDigit(c0)
  THEN IF IsDigit(c1) THEN 10 * (c0 - 48) + (c1 - 48) ELSE c0 - 48
  ELSE IF (IsSpace(c0) \/ c0 = 43) /\ IsDigit(c1) THEN c1 - 48
  ELSE IF c0 = 45 /\ IsDigit(c1) THEN 0 - (c1 - 48)
  ELSE 0

HexDigit(d) == IF d < 10 THEN 48 + d ELSE 55 + d

RECURSIVE HexStr(_)
HexStr(u) == IF u < 16 THEN <<HexDigit(u)>> ELSE HexStr(u \div 16) \o <<HexDigit(u % 16)>>

\* sprintf(Calc, "%02X", iChecksum): the characters produced
Sprintf02X(u) == IF u < 16 THEN <<Ch0, HexDigit(u)>> ELSE HexStr(u)

RECURSIVE DecStr(_)
DecStr(n) == IF n < 10 THEN <<48 + n>> ELSE DecStr(n \div 10) \o <<48 + (n % 10)>>

(***************************************************************************)
(* Checksum codec.                                                         *)
(***************************************************************************)
\* iChecksum after "for (x = from; x < to; x++) iChecksum ^= (char)p[x]",
\* computed on the two halves of the range (^ is associative)
RECURSIVE XorRange(_, _, _)
XorRange(buf, from, to) ==
  IF from >= to THEN 0
  ELSE IF to - from = 1 THEN CharToInt(At(buf, from))
  ELSE LET mid == from + (to - from) \div 2
       IN BitXor(XorRange(buf, from, mid), XorRange(buf, mid, to))

\* index of the first '*' among the first iSize bytes, 0 when there is none
FirstStar(buf, iSize) ==
  LET hits == {x \in 0 .. iSize - 1 : buf[x] = Star}
  IN IF hits = {} THEN 0 ELSE CHOOSE x \in hits : \A y \in hits : x <= y

CheckSum(pPacket) ==
  LET iSize == strlen(pPacket)
      iAstericks == FirstStar(pPacket, iSize)
      csIN == <<At(pPacket, iAstericks + 1), At(pPacket, iAstericks + 2)>>
      Calc == Sprintf02X(XorRange(pPacket, 1, iAstericks))
  IN IF iSize > 10 /\ iAstericks > 0 THEN csIN[1] = Calc[1] ELSE FALSE

\* SetCheckSum on the C string pPacket held in a buffer of bufferSize bytes
SetCheckSum(pPacket, bufferSize) ==
  LET iSize == strlen(pPacket)
      Calc == Sprintf02X(XorRange(pPacket, 1, iSize))
  IN IF iSize + 5 <= bufferSize
     THEN [ok |-> TRUE,
           buf |-> [i \in DOMAIN pPacket |->
                      IF i = iSize THEN Star
                      ELSE IF i = iSize + 1 THEN Calc[1]
                      ELSE IF i = iSize + 2 THEN Calc[2]
                      ELSE IF i = iSize + 3 THEN CR
                      ELSE IF i = iSize + 4 THEN LF
                      ELSE pPacket[i]]]
     ELSE [ok |-> FALSE, buf |-> pPacket]

(***************************************************************************)
(* TimeLib makeTime: seconds since 1970 of the broken-down time, Year      *)
(* being the offset from 1970.                                             *)
(***************************************************************************)
SECS_PER_DAY == 86400

LEAP_YEAR(Y) ==
  (1970 + Y) % 4 = 0 /\ ((1970 + Y) % 100 # 0 \/ (1970 + Y) % 400 = 0)

monthDays == <<31, 28, 31, 30, 31, 30, 31, 31, 30, 31, 30, 31>>

RECURSIVE LeapDaysBefore(_)
LeapDaysBefore(Y) ==
  IF Y = 0 THEN 0
  ELSE LeapDaysBefore(Y - 1) + (IF LEAP_YEAR(Y - 1) THEN 1 ELSE 0)

RECURSIVE DaysBeforeMonth(_, _)
DaysBeforeMonth(Y, M) ==
  IF M <= 1 THEN 0
  ELSE DaysBeforeMonth(Y, M - 1)
       + (IF M - 1 = 2 /\ LEAP_YEAR(Y) THEN 29 ELSE monthDays[M - 1])

makeTime(tm) ==
  (tm.Year * 365 + LeapDaysBefore(tm.Year) + DaysBeforeMonth(tm.Year, tm.Month)
     + (tm.Day - 1)) * SECS_PER_DAY
  + tm.Hour * 3600 + tm.Minute * 60 + tm.Second

(***************************************************************************)
(* String literals of the sketch.                                          *)
(***************************************************************************)
\* "GSV", "GGA", "VTG", "GLL"
spamList == <<<<71, 83, 86>>, <<71, 71, 65>>, <<86, 84, 71>>, <<71, 76, 76>>>>
\* "RMC", "GSA"
throttleList == <<<<82, 77, 67>>, <<71, 83, 65>>>>
\* "$GPRMC,"
TokRMC == <<36, 71, 80, 82, 77, 67, 44>>
\* "$GPGSA"
TokGSA == <<36, 71, 80, 71, 83, 65>>
\* "$PUBX,40,"
PubxHead == <<36, 80, 85, 66, 88, 44, 52, 48, 44>>
\* ",0,"
PubxMid == <<44, 48, 44>>
\* ",0,0,0,0"
PubxTail == <<44, 48, 44, 48, 44, 48, 44, 48>>

(***************************************************************************)
(* What the receiver may put on the wire: NMEA sentences with their        *)
(* trailer, damaged sentences, and runs without a terminator.              *)
(***************************************************************************)
\* $GPGSA,A,1*32\r\n
GSA1 ==
  <<36, 71, 80, 71, 83, 65, 44, 65, 44, 49, 42, 51, 50, 13, 10>>
\* $GPGSA,A,2*31\r\n
GSA2 ==
  <<36, 71, 80, 71, 83, 65, 44, 65, 44, 50, 42, 51, 49, 13, 10>>
\* $GPGSA,A,3*30\r\n
GSA3 ==
  <<36, 71, 80, 71, 83, 65, 44, 65, 44, 51, 42, 51, 48, 13, 10>>
\* $GPGSA,A,9*3A\r\n
GSA9 ==
  <<36, 71, 80, 71, 83, 65, 44, 65, 44, 57, 42, 51, 65, 13, 10>>
\* $GPGSA,A,3*3F\r\n   (the checksum of the body is 30)
GSA3_BadDigit2 ==
  <<36, 71, 80, 71, 83, 65, 44, 65, 44, 51, 42, 51, 70, 13, 10>>
\* $GPGSA,A,3*40\r\n   (the checksum of the body is 30)
GSA3_BadDigit1 ==
  <<36, 71, 80, 71, 83, 65, 44, 65, 44, 51, 42, 52, 48, 13, 10>>
\* $GPRMC,000000.00,V,,,,,,,160722,,,N*7D\r\n
RMC_A ==
  <<36, 71, 80, 82, 77, 67, 44, 48, 48, 48, 48, 48, 48, 46, 48, 48, 44, 86, 44, 44, 44, 44, 44, 44, 44, 49, 54, 48, 55, 50, 50, 44, 44, 44, 78, 42, 55, 68, 13, 10>>
\* $GPRMC,181216.00,V,,,,,,,160722,,,N*70\r\n
RMC_C ==
  <<36, 71, 80, 82, 77, 67, 44, 49, 56, 49, 50, 49, 54, 46, 48, 48, 44, 86, 44, 44, 44, 44, 44, 44, 44, 49, 54, 48, 55, 50, 50, 44, 44, 44, 78, 42, 55, 48, 13, 10>>
\* $GPRMC,,V,,,,,,,,,,N*53\r\n
RMC_Empty ==
  <<36, 71, 80, 82, 77, 67, 44, 44, 86, 44, 44, 44, 44, 44, 44, 44, 44, 44, 44, 78, 42, 53, 51, 13, 10>>
\* $GPRMC,,V,,,,,,,160722,,,N*53\r\n   (no time, date 16 Jul 2022)
RMC_NoTime ==
  <<36, 71, 80, 82, 77, 67, 44, 44, 86, 44, 44, 44, 44, 44, 44, 44, 49, 54, 48, 55, 50, 50, 44, 44, 44, 78, 42, 53, 51, 13, 10>>
\* $GPGSV,1,1,00*79\r\n
GSV ==
  <<36, 71, 80, 71, 83, 86, 44, 49, 44, 49, 44, 48, 48, 42, 55, 57, 13, 10>>
\* xGPGSV,1,1,00*79\r\n
NoDollar ==
  <<120, 71, 80, 71, 83, 86, 44, 49, 44, 49, 44, 48, 48, 42, 55, 57, 13, 10>>
\* "$GPR": a sentence cut short
Partial == <<36, 71, 80, 82>>
\* "$" and 99 times "A": fills the frame buffer, no terminator
Overlong == <<Dollar>> \o [k \in 1 .. GpsResponseSize - 1 |-> 65]

\* the report of one second: a 3D fix followed by the time of RMC_C
Burst == GSA3 \o RMC_C

Library ==
  {GSA1, GSA2, GSA3, GSA9, GSA3_BadDigit2, GSA3_BadDigit1, RMC_A, RMC_C,
   RMC_Empty, RMC_NoTime, GSV, NoDollar, Partial, Overlong, Burst}

\* the epochs of RMC_A (16 Jul 2022 00:00:00) and RMC_C (18:12:16, 65536 s later)
EpochA == 19189 * 86400
EpochC == EpochA + 65536


(***************************************************************************)
(* State.                                                                  *)
(***************************************************************************)
VARIABLES
  pc,                \* "setup", "loop" (top of loop()), "while" (inside ProcessGPS)
  wire,              \* bytes the receiver has emitted that have not arrived yet
  rx,                \* bytes waiting in gpsSerial (available() = Len(rx))
  sends,             \* segments emitted so far
  ticks,             \* seconds elapsed so far
  cycles,            \* power cycles so far
  gpsResponse,       \* _gpsResponse
  packetOffset,      \* _packetOffset
  buildingSentence,  \* _buildingSentence
  bFullSentence,     \* local of ProcessGPS
  gpsStatus,         \* _gpsStatus: bit 0 rmc, bit 1 bbr, bit 2 fix2D, bit 3 fix3D
  gpsTime,           \* _gpsTime
  lastCycleDevices,  \* _lastCycleDevices
  startingUp,        \* _startingUp
  timeSet,           \* timeStatus() == timeSet
  sysTime,           \* now()
  eeprom,            \* [configured, lastGPSFix, gpsFixType]
  log,               \* what the last step printed on Serial
  gpsTx,             \* the commands the last step wrote to gpsSerial
  ev,                \* what the last step did, with the values it started from
  idealLen,          \* reference framer: bytes since the start marker, -1 when idle
  idealCR,           \* reference framer: the previous byte was CR
  idealEmit,         \* reference framer: the last byte read completed a sentence
  overflowed,        \* an overflow happened and no '$' was read since
  stale,             \* buffer cells whose byte arrived before the latest '$'
  g,                 \* the globals, clock and store of GPSTime.ino, as one record
  p0,                \* the globals, clock and serial input of part_000, as one record
  call               \* a call of SetCheckSum / CheckSum on its own: argument and result

vars ==
  <<pc, wire, rx, sends, ticks, cycles, gpsResponse, packetOffset, buildingSentence,
    bFullSentence, gpsStatus, gpsTime, lastCycleDevices, startingUp, timeSet,
    sysTime, eeprom, log, gpsTx, ev, idealLen, idealCR, idealEmit, overflowed,
    stale, g, p0, call>>

envVars == <<wire, rx, sends, ticks, cycles>>
framerVars == <<gpsResponse, packetOffset, buildingSentence, bFullSentence>>
appVars == <<gpsStatus, gpsTime, lastCycleDevices, startingUp, timeSet, sysTime, eeprom>>
ghostVars == <<idealLen, idealCR, idealEmit, overflowed, stale>>
\* what the part_001 sketch never touches
otherVars == <<g, p0, call>>
\* everything the part_001 sketch owns
sketchVars == <<pc, envVars, framerVars, appVars, log, gpsTx, ev, ghostVars>>

Msg(t, v) == [tag |-> t, val |-> v]

\* the time authority as one record
App == [gpsStatus |-> gpsStatus, gpsTime |-> gpsTime, timeSet |-> timeSet,
        sysTime |-> sysTime, eeprom |-> eeprom]

Ev(op) ==
  [op |-> op, c |-> -1, poff |-> packetOffset, widx |-> -1, handed |-> FALSE,
   frame |-> <<>>, cs |-> FALSE, spam |-> FALSE, ts |-> FALSE, rmc |-> FALSE,
   tempTime |-> 0, pre |-> App]

(***************************************************************************)
(* SetSentences and Spam.                                                  *)
(***************************************************************************)
\* sizeof(list) / 2 for an array of n pointers
RowCount(n) == (n * PtrSize) \div 2

\* sprintf(_sprintBuf, "$PUBX,40,%s,0,%d,0,0,0,0", name, cycleSetting)
PubxCommand(name, cycleSetting) ==
  PubxHead \o name \o PubxMid \o DecStr(cycleSetting) \o PubxTail

\* the commands SetSentences writes to gpsSerial, in order
RECURSIVE SetSentencesFrom(_, _, _, _)
SetSentencesFrom(pList, x, rowCount, cycleSetting) ==
  IF x > rowCount THEN <<>>
  ELSE LET r == SetCheckSum(ToBuf(PubxCommand(pList[x], cycleSetting), SprintBufSize),
                            SprintBufSize)
       IN (IF r.ok THEN <<CStr(r.buf)>> ELSE <<>>)
          \o SetSentencesFrom(pList, x + 1, rowCount, cycleSetting)

SetSentences(pList, rowCount, cycleSetting) ==
  [tx |-> SetSentencesFrom(pList, 1, rowCount, cycleSetting),
   log |-> <<Msg(IF cycleSetting = 0 THEN "BLOCKING:"
                 ELSE IF cycleSetting = 1 THEN "DEFAULT RATE:"
                 ELSE "THROTTLING:", cycleSetting)>>]

SpamFound(pResponse) ==
  \E x \in 1 .. RowCount(Len(spamList)) : strstr(pResponse, spamList[x]) # -1

\* a variant that blocks the suppressed sentences and does not throttle
SpamBlocksOnly(pResponse) ==
  IF SpamFound(pResponse)
  THEN LET a == SetSentences(spamList, RowCount(Len(spamList)), 0)
       IN [res |-> FALSE, tx |-> a.tx, log |-> <<Msg("SPAM DETECTED", 0)>> \o a.log]
  ELSE [res |-> FALSE, tx |-> <<>>, log |-> <<>>]

\* Spam always returns false: bResult is never set
Spam(pResponse) ==
  IF SpamFound(pResponse)
  THEN LET a == SetSentences(spamList, RowCount(Len(spamList)), 0)
           b == SetSentences(throttleList, RowCount(Len(throttleList)), NMEA_CYCLE_REPORT)
       IN [res |-> FALSE, tx |-> a.tx \o b.tx,
           log |-> <<Msg("SPAM DETECTED", 0)>> \o a.log \o b.log]
  ELSE [res |-> FALSE, tx |-> <<>>, log |-> <<>>]

(***************************************************************************)
(* TimeSource: the fix-quality sentence.                                   *)
(***************************************************************************)
\* a variant that clears only the bbr bit
ClearTrustBbrOnly(status) == bitClear(status, 1)

\* a variant that clears the whole status
ClearTrustAndRmc(status) == bitClear(bitClear(bitClear(bitClear(status, 0), 1), 2), 3)

\* a variant that leaves bbr as it is
ClearTrustFixOnly(status) == bitClear(bitClear(status, 2), 3)

\* the three bitClear calls
ClearTrust(status) == bitClear(bitClear(bitClear(status, 1), 2), 3)

TimeSource(pResponse, status) ==
  LET found == strstr(pResponse, TokGSA)
      fixStatus == At(pResponse, 9)
      cleared == ClearTrust(status)
  IN IF found # -1
     THEN [res |-> TRUE,
           gpsStatus |-> IF fixStatus = Ch1 THEN bitSet(cleared, 1)
                         ELSE IF fixStatus = Ch2 THEN bitSet(cleared, 2)
                         ELSE IF fixStatus = Ch3 THEN bitSet(cleared, 3)
                         ELSE cleared,
           log |-> IF fixStatus \in {Ch1, Ch2, Ch3} THEN <<>>
                   ELSE <<Msg("TimeSource, unexpected char in [9]:", fixStatus)>>]
     ELSE [res |-> FALSE, gpsStatus |-> status, log |-> <<>>]

(***************************************************************************)
(* SyncTimeToGPS: the time/date sentence.                                  *)
(***************************************************************************)
\* a value stored in a uint8_t field of tmElements_t
U8(n) == n % 256

\* "int decay = tempTime - now()": the low 16 bits of the difference
Decay(tempTime, nowT) == ToSigned((tempTime - nowT) % Pow2(IntBits))

\* iOffset after the first loop and the increment
TimeOffset(pResponse, pFound) ==
  LET hits == {i \in 0 .. 8 : At(pResponse, pFound + i) = Comma}
  IN (IF hits = {} THEN 9 ELSE CHOOSE i \in hits : \A j \in hits : i <= j) + 1

\* iOffset after the comma-counting loop: the index of the eighth comma at or
\* after from, -1 when the string has fewer than eight
EighthComma(pResponse, pFound, from) ==
  LET n == strlen(pResponse) - pFound
      CommasUpTo(i) == Cardinality({j \in from .. i : At(pResponse, pFound + j) = Comma})
      hits == {i \in from .. n - 1 : At(pResponse, pFound + i) = Comma /\ CommasUpTo(i) = 8}
  IN IF hits = {} THEN -1 ELSE CHOOSE i \in hits : TRUE

Field2(pResponse, i) == atoi2(At(pResponse, i), At(pResponse, i + 1))

TrustLabel(bbr, fix2, fix3) ==
  IF bbr THEN "TimeSet using BBR"
  ELSE IF fix2 THEN "TimeSet using GPS:2d"
  ELSE "TimeSet using GPS:3d"

\* a variant that forgets the 3D flag
TrustedNoFix3(status) == bitRead(status, 1) = 1 \/ bitRead(status, 2) = 1

\* a variant that trusts every sentence
TrustedAlways(status) == status = status

\* line 327: bbr || fix2 || fix3
Trusted(status) ==
  bitRead(status, 1) = 1 \/ bitRead(status, 2) = 1 \/ bitRead(status, 3) = 1

\* lines 315-365: what a candidate epoch does to the time authority
ApplyTime(tempTime, a) ==
  LET status1 == bitSet(a.gpsStatus, 0)
      bbr == bitRead(status1, 1) = 1
      fix2 == bitRead(status1, 2) = 1
      fix3 == bitRead(status1, 3) = 1
      gpsTime1 == IF fix2 \/ fix3 THEN tempTime ELSE a.gpsTime
      decay == Decay(tempTime, a.sysTime)
      doSet == ~a.timeSet \/ decay # 0
      eeprom1 == IF fix2 \/ fix3
                 THEN [a.eeprom EXCEPT !.lastGPSFix = gpsTime1,
                                       !.gpsFixType = IF fix2 THEN Ch2 ELSE Ch3]
                 ELSE a.eeprom
  IN IF Trusted(status1)
     THEN [gpsStatus |-> status1, gpsTime |-> gpsTime1, timeSet |-> TRUE,
           sysTime |-> IF doSet THEN tempTime ELSE a.sysTime,
           eeprom |-> eeprom1,
           log |-> IF ~a.timeSet THEN <<Msg(TrustLabel(bbr, fix2, fix3), 0)>>
                   ELSE IF decay # 0
                   THEN <<Msg("TIME mismatch: ", decay), Msg(TrustLabel(bbr, fix2, fix3), 0)>>
                   ELSE <<>>]
     ELSE [gpsStatus |-> status1, gpsTime |-> gpsTime1, timeSet |-> a.timeSet,
           sysTime |-> a.sysTime, eeprom |-> a.eeprom,
           log |-> <<Msg("TimeSet pending GPGSA", 0)>>]

Unchanged(a, msgs) == [gpsStatus |-> a.gpsStatus, gpsTime |-> a.gpsTime, timeSet |-> a.timeSet,
                       sysTime |-> a.sysTime, eeprom |-> a.eeprom, log |-> msgs]

\* the fields SyncTimeToGPS extracts: [ok, tm]; ok is false when a sanity
\* check or the date check fails
Extract(pResponse, pFound) ==
  LET iOffset == TimeOffset(pResponse, pFound)
      p == pFound + iOffset
      comma == EighthComma(pResponse, pFound, iOffset)
      d == pFound + comma + 1
      tm == [Hour |-> U8(Field2(pResponse, p)),
             Minute |-> U8(Field2(pResponse, p + 2)),
             Second |-> U8(Field2(pResponse, p + 4)),
             Day |-> U8(Field2(pResponse, d)),
             Month |-> U8(Field2(pResponse, d + 2)),
             Year |-> U8(Field2(pResponse, d + 4) + 30)]
  IN IF iOffset # 7 THEN [ok |-> FALSE, why |-> "", tm |-> tm]
     ELSE IF comma = -1
     THEN [ok |-> FALSE, why |-> "Malformed or missing RMC date information", tm |-> tm]
     ELSE IF tm.Month > 0 /\ tm.Day > 0 /\ tm.Year > 30
     THEN [ok |-> TRUE, why |-> "", tm |-> tm]
     ELSE [ok |-> FALSE, why |-> "SyncTimeToGPS:  makeTime failed", tm |-> tm]

\* a variant that marks the clock not set when the fields fail their checks
SyncTimeToGPSDowngrades(pResponse, a) ==
  LET pFound == strstr(pResponse, TokRMC)
      x == Extract(pResponse, pFound)
      tempTime == makeTime(x.tm)
  IN IF pFound = -1 THEN [found |-> FALSE, tempTime |-> 0, new |-> Unchanged(a, <<>>)]
     ELSE IF ~x.ok
     THEN [found |-> TRUE, tempTime |-> 0,
           new |-> [Unchanged(a, <<>>) EXCEPT !.timeSet = FALSE]]
     ELSE IF tempTime > 0
     THEN [found |-> TRUE, tempTime |-> tempTime, new |-> ApplyTime(tempTime, a)]
     ELSE [found |-> TRUE, tempTime |-> 0, new |-> Unchanged(a, <<>>)]

SyncTimeToGPS(pResponse, a) ==
  LET pFound == strstr(pResponse, TokRMC)
      x == Extract(pResponse, pFound)
      tempTime == makeTime(x.tm)
  IN IF pFound = -1 THEN [found |-> FALSE, tempTime |-> 0, new |-> Unchanged(a, <<>>)]
     ELSE IF ~x.ok
     THEN [found |-> TRUE, tempTime |-> 0,
           new |-> Unchanged(a, IF x.why = "" THEN <<>> ELSE <<Msg(x.why, 0)>>)]
     ELSE IF tempTime > 0
     THEN [found |-> TRUE, tempTime |-> tempTime, new |-> ApplyTime(tempTime, a)]
     ELSE [found |-> TRUE, tempTime |-> 0, new |-> Unchanged(a, <<>>)]

(***************************************************************************)
(* DisplayTime and the tail of loop().                                     *)
(***************************************************************************)
\* (a - b) / 60 in unsigned 32-bit arithmetic, truncated to unsigned int;
\* 2^32 = 60 * 71582788 + 16
ElapsedMinutes(a, b) ==
  (IF a >= b THEN (a - b) \div 60 ELSE 71582788 + ((16 - (b - a)) \div 60)) % Pow2(IntBits)

\* nowT - _lastCycleDevices >= READ_EVERY in unsigned 32-bit arithmetic
CycleDue(nowT, last) == nowT < last \/ nowT - last >= READ_EVERY

DisplayTime(pTime, status, lastFix) ==
  IF bitRead(status, 0) = 1
  THEN <<Msg("GMT:", IF bitRead(status, 1) = 1 THEN ElapsedMinutes(pTime, lastFix) ELSE 0)>>
  ELSE <<Msg("GMT:GPRMC MISSING", 0)>>

\* lines 129-145 of loop(), on the time authority a
LoopTail(a, starting, last) ==
  IF starting
  THEN IF a.timeSet
       THEN LET r == SetSentences(throttleList, RowCount(Len(throttleList)), NMEA_CYCLE_REPORT)
            IN [startingUp |-> FALSE, lastCycleDevices |-> last, tx |-> r.tx, log |-> r.log]
       ELSE [startingUp |-> TRUE, lastCycleDevices |-> last, tx |-> <<>>, log |-> <<>>]
  ELSE IF CycleDue(a.sysTime, last)
       THEN [startingUp |-> FALSE, lastCycleDevices |-> a.sysTime, tx |-> <<>>,
             log |-> DisplayTime(a.sysTime, a.gpsStatus, a.gpsTime)]
       ELSE [startingUp |-> FALSE, lastCycleDevices |-> last, tx |-> <<>>, log |-> <<>>]

(***************************************************************************)
(* ProcessGPS: the framer.                                                 *)
(***************************************************************************)
\* a variant that is off by one
OverflowOffByOne(off) == off > GpsResponseSize

\* the overflow test at the top of the while loop
Overflow(off) == off >= GpsResponseSize

\* a variant that keeps the partial frame
StartFrameNoClear(buf, off) == [buf EXCEPT ![0] = Dollar]

\* the buffer after the '$' branch, entered with cursor off
StartFrame(buf, off) ==
  [(IF off # 0 THEN Zeroed(GpsResponseSize) ELSE buf) EXCEPT ![0] = Dollar]

\* the terminator test after c was stored at off
Terminated(buf, off) == off > 2 /\ At(buf, off - 1) = CR /\ At(buf, off) = LF

\* a store into the buffer (a store past the array leaves the array as it is)
Poke(buf, i, c) == IF i \in DOMAIN buf THEN [buf EXCEPT ![i] = c] ELSE buf

\* a variant that stores the start marker at the cursor like any other byte
FramerStepStoresMarker(buf, off, building, c) ==
  LET ovf == Overflow(off)
      buf1 == IF ovf THEN Zeroed(GpsResponseSize) ELSE buf
      off1 == IF ovf THEN 0 ELSE off
      buf2 == Poke(buf1, off1, c)
      done == Terminated(buf2, off1)
  IN [buf |-> buf2, off |-> IF done THEN off1 ELSE off1 + 1,
      building |-> IF done THEN FALSE ELSE (building \/ c = Dollar), full |-> done,
      widx |-> off1, ovf |-> ovf,
      log |-> IF ovf THEN <<Msg("GPS MEMORY OVERFLOW", 0)>> ELSE <<>>]

\* one iteration of the while loop, reading byte c
FramerStep(buf, off, building, c) ==
  LET ovf == Overflow(off)
      buf1 == IF ovf THEN Zeroed(GpsResponseSize) ELSE buf
      off1 == IF ovf THEN 0 ELSE off
      buf2 == Poke(buf1, off1, c)
      done == Terminated(buf2, off1)
  IN IF c = Dollar
     THEN [buf |-> StartFrame(buf1, off1), off |-> 1, building |-> TRUE, full |-> FALSE,
           widx |-> 0, ovf |-> ovf,
           log |-> (IF ovf THEN <<Msg("GPS MEMORY OVERFLOW", 0)>> ELSE <<>>)
                   \o (IF off1 # 0 THEN <<Msg("GPS BUFFER RESET:", 0)>> ELSE <<>>)]
     ELSE [buf |-> buf2, off |-> IF done THEN off1 ELSE off1 + 1,
           building |-> IF done THEN FALSE ELSE building, full |-> done,
           widx |-> off1, ovf |-> ovf,
           log |-> IF ovf THEN <<Msg("GPS MEMORY OVERFLOW", 0)>> ELSE <<>>]

\* the indices strlen and strstr read: up to and with the first NUL at or
\* after from
StrlenReads(buf, from) == from .. from + StrLenAt(buf, from)

\* the indices CheckSum reads, lines 441-457
CheckSumReads(pPacket) ==
  LET iSize == strlen(pPacket)
      iAstericks == FirstStar(pPacket, iSize)
  IN StrlenReads(pPacket, 0)
       \cup (IF iSize > 10 /\ iAstericks > 0 THEN {iAstericks + 1, iAstericks + 2} ELSE {})

\* the indices TimeSource reads, lines 387-390
TimeSourceReads(pResponse) ==
  StrlenReads(pResponse, 0) \cup (IF strstr(pResponse, TokGSA) # -1 THEN {9} ELSE {})

\* the indices SyncTimeToGPS reads, lines 265-307
SyncTimeToGPSReads(pResponse) ==
  LET pFound == strstr(pResponse, TokRMC)
      iOffset == TimeOffset(pResponse, pFound)
      comma == EighthComma(pResponse, pFound, iOffset)
  IN StrlenReads(pResponse, 0)
       \cup (IF pFound # -1 /\ iOffset = 7
             THEN (pFound + 7 .. pFound + 12)
                    \cup (IF comma # -1 THEN pFound + comma + 1 .. pFound + comma + 6 ELSE {})
             ELSE {})

\* the indices of the frame buffer that lines 236-240 read
DispatchReads(frame) ==
  CheckSumReads(frame)
    \cup (IF CheckSum(frame)
          THEN TimeSourceReads(frame)
                 \cup (IF strstr(frame, TokGSA) = -1 THEN SyncTimeToGPSReads(frame) ELSE {})
          ELSE {})

\* what a read past _gpsResponse may find in the bytes that follow it: zeroes,
\* the low byte of _packetOffset and zeroes, or bytes that go on as a sentence
AdjacentMemory ==
  {<<0, 0, 0, 0, 0, 0>>, <<99, 0, 0, 0, 0, 0>>, <<Star, 52, 49, Comma, 0, 0>>}

\* the frame as CheckSum, TimeSource and SyncTimeToGPS see it: followed by the
\* adjacent memory when they read past the buffer
FrameViews(frame) ==
  IF DispatchReads(frame) \subseteq DOMAIN frame THEN {frame}
  ELSE {[i \in 0 .. BufSize(frame) + Len(m) - 1 |->
           IF i < BufSize(frame) THEN frame[i] ELSE m[i - BufSize(frame) + 1]] :
          m \in AdjacentMemory}

\* a variant that classifies the frame whatever CheckSum returned
DispatchIgnoresCheckSum(frame, a) ==
  LET ok == CheckSum(frame)
      sp == Spam(frame)
      ts == TimeSource(frame, a.gpsStatus)
      sy == SyncTimeToGPS(frame, a)
      tag == IF ok THEN "CS+:" ELSE "CS-:"
  IN IF ts.res
     THEN [cs |-> ok, spam |-> SpamFound(frame), ts |-> TRUE, rmc |-> FALSE, tempTime |-> 0,
           tx |-> sp.tx, log |-> <<Msg(tag, 0)>> \o sp.log \o ts.log,
           new |-> [Unchanged(a, <<>>) EXCEPT !.gpsStatus = ts.gpsStatus]]
     ELSE [cs |-> ok, spam |-> SpamFound(frame), ts |-> FALSE, rmc |-> sy.found,
           tempTime |-> sy.tempTime,
           tx |-> sp.tx, log |-> <<Msg(tag, 0)>> \o sp.log \o sy.new.log,
           new |-> sy.new]

\* a variant that marks the clock not set when a fix-quality sentence leaves
\* no trust flag
DispatchUnsetsClock(frame, a) ==
  LET ok == CheckSum(frame)
      sp == Spam(frame)
      ts == TimeSource(frame, a.gpsStatus)
      sy == SyncTimeToGPS(frame, a)
  IN IF ~ok
     THEN [cs |-> FALSE, spam |-> FALSE, ts |-> FALSE, rmc |-> FALSE, tempTime |-> 0,
           tx |-> <<>>, log |-> <<Msg("CS-:", 0)>>, new |-> Unchanged(a, <<>>)]
     ELSE IF ts.res
     THEN [cs |-> TRUE, spam |-> SpamFound(frame), ts |-> TRUE, rmc |-> FALSE, tempTime |-> 0,
           tx |-> sp.tx, log |-> <<Msg("CS+:", 0)>> \o sp.log \o ts.log,
           new |-> [Unchanged(a, <<>>) EXCEPT
                      !.gpsStatus = ts.gpsStatus,
                      !.timeSet = a.timeSet /\ ClearTrust(ts.gpsStatus) # ts.gpsStatus]]
     ELSE [cs |-> TRUE, spam |-> SpamFound(frame), ts |-> FALSE, rmc |-> sy.found,
           tempTime |-> sy.tempTime,
           tx |-> sp.tx, log |-> <<Msg("CS+:", 0)>> \o sp.log \o sy.new.log,
           new |-> sy.new]

\* lines 236-253: a completed frame goes through CheckSum, Spam, TimeSource
\* and SyncTimeToGPS
Dispatch(frame, a) ==
  LET ok == CheckSum(frame)
      sp == Spam(frame)
      ts == TimeSource(frame, a.gpsStatus)
      sy == SyncTimeToGPS(frame, a)
  IN IF ~ok
     THEN [cs |-> FALSE, spam |-> FALSE, ts |-> FALSE, rmc |-> FALSE, tempTime |-> 0,
           tx |-> <<>>, log |-> <<Msg("CS-:", 0)>>, new |-> Unchanged(a, <<>>)]
     ELSE IF ts.res
     THEN [cs |-> TRUE, spam |-> SpamFound(frame), ts |-> TRUE, rmc |-> FALSE, tempTime |-> 0,
           tx |-> sp.tx, log |-> <<Msg("CS+:", 0)>> \o sp.log \o ts.log,
           new |-> [Unchanged(a, <<>>) EXCEPT !.gpsStatus = ts.gpsStatus]]
     ELSE [cs |-> TRUE, spam |-> SpamFound(frame), ts |-> FALSE, rmc |-> sy.found,
           tempTime |-> sy.tempTime,
           tx |-> sp.tx, log |-> <<Msg("CS+:", 0)>> \o sp.log \o sy.new.log,
           new |-> sy.new]

\* lines 234-235 when no completed frame is at hand: nothing happens
NoDispatch(a) ==
  [cs |-> FALSE, spam |-> FALSE, ts |-> FALSE, rmc |-> FALSE, tempTime |-> 0,
   tx |-> <<>>, log |-> <<>>, new |-> Unchanged(a, <<>>)]

(***************************************************************************)
(* The reference framer of the framing contract: idle until a '$', then    *)
(* counting bytes; a CR LF pair that arrives while the frame still fits    *)
(* the buffer completes a sentence, a frame that outgrows it is dropped.   *)
(***************************************************************************)
IdealStep(len, prevCR, c) ==
  IF c = Dollar THEN [len |-> 1, cr |-> FALSE, emit |-> FALSE]
  ELSE IF len = -1 THEN [len |-> -1, cr |-> FALSE, emit |-> FALSE]
  ELSE IF len + 1 > GpsResponseSize THEN [len |-> -1, cr |-> FALSE, emit |-> FALSE]
  ELSE IF prevCR /\ c = LF THEN [len |-> -1, cr |-> FALSE, emit |-> TRUE]
  ELSE [len |-> len + 1, cr |-> (c = CR), emit |-> FALSE]

(***************************************************************************)
(* Initial state: the globals as declared, the store as the last run left  *)
(* it (never configured, or configured with a 3D fix ten minutes before    *)
(* EpochA).                                                                *)
(***************************************************************************)
\* a variant that resets the store on every start
LoadSettingsAlwaysResets(store) ==
  [configured |-> TRUE, lastGPSFix |-> 0, gpsFixType |-> 0]

\* lines 87-98 of setup(): the store after the first-run test
LoadSettings(store) ==
  IF store.configured THEN store
  ELSE [configured |-> TRUE, lastGPSFix |-> 0, gpsFixType |-> 0]

InitialStores ==
  {[configured |-> FALSE, lastGPSFix |-> 0, gpsFixType |-> 0],
   [configured |-> TRUE, lastGPSFix |-> EpochA - 600, gpsFixType |-> Ch3]}

InitWith(stores) ==
  /\ pc = "setup"
  /\ wire = <<>>
  /\ rx = <<>>
  /\ sends = 0
  /\ ticks = 0
  /\ cycles = 0
  /\ gpsResponse = Zeroed(GpsResponseSize)
  /\ packetOffset = 0
  /\ buildingSentence = FALSE
  /\ bFullSentence = FALSE
  /\ gpsStatus = 0
  /\ gpsTime = 0
  /\ lastCycleDevices = 0
  /\ startingUp = TRUE
  /\ timeSet = FALSE
  /\ sysTime = 0
  /\ eeprom \in stores
  /\ log = <<>>
  /\ gpsTx = <<>>
  /\ ev = [op |-> "none", c |-> -1, poff |-> 0, widx |-> -1, handed |-> FALSE,
           frame |-> <<>>, cs |-> FALSE, spam |-> FALSE, ts |-> FALSE, rmc |-> FALSE,
           tempTime |-> 0,
           pre |-> [gpsStatus |-> 0, gpsTime |-> 0, timeSet |-> FALSE, sysTime |-> 0,
                    eeprom |-> eeprom]]
  /\ idealLen = -1
  /\ idealCR = FALSE
  /\ idealEmit = FALSE
  /\ overflowed = FALSE
  /\ stale = {}
  /\ g = [pc |-> "off"]
  /\ p0 = [pc |-> "off"]
  /\ call = [stage |-> "none"]

Init == InitWith(InitialStores)

(***************************************************************************)
(* Actions of the sketch.                                                  *)
(***************************************************************************)
\* setup()
Setup ==
  /\ pc = "setup"
  /\ LET settings == LoadSettings(eeprom)
         a == SetSentences(spamList, RowCount(Len(spamList)), 0)
         b == SetSentences(throttleList, RowCount(Len(throttleList)), 1)
     IN /\ eeprom' = settings
        /\ gpsTime' = settings.lastGPSFix
        /\ gpsTx' = a.tx \o b.tx
        /\ log' = <<Msg("Starting", 0)>>
                  \o (IF eeprom.configured THEN <<>> ELSE <<Msg("Updating EEProm", 0)>>)
                  \o a.log \o b.log
  /\ buildingSentence' = FALSE
  /\ pc' = "loop"
  /\ ev' = Ev("setup")
  /\ UNCHANGED <<envVars, gpsResponse, packetOffset, bFullSentence, gpsStatus,
                 lastCycleDevices, startingUp, timeSet, sysTime, ghostVars>>
  /\ UNCHANGED otherVars

\* loop() when nothing is available
LoopIdle ==
  /\ pc = "loop"
  /\ rx = <<>>
  /\ LET t == LoopTail(App, startingUp, lastCycleDevices)
     IN /\ startingUp' = t.startingUp
        /\ lastCycleDevices' = t.lastCycleDevices
        /\ gpsTx' = t.tx
        /\ log' = t.log
  /\ ev' = Ev("idle")
  /\ UNCHANGED <<pc, envVars, framerVars, gpsStatus, gpsTime, timeSet, sysTime, eeprom,
                 ghostVars>>
  /\ UNCHANGED otherVars

\* ProcessGPS, lines 190-194
ProcessGPS_Begin ==
  /\ pc = "loop"
  /\ rx # <<>>
  /\ bFullSentence' = FALSE
  /\ IF buildingSentence = FALSE
     THEN /\ gpsResponse' = Zeroed(GpsResponseSize)
          /\ packetOffset' = 0
          /\ stale' = {}
     ELSE UNCHANGED <<gpsResponse, packetOffset, stale>>
  /\ pc' = "while"
  /\ log' = <<>>
  /\ gpsTx' = <<>>
  /\ ev' = Ev("begin")
  /\ idealEmit' = FALSE
  /\ UNCHANGED <<envVars, buildingSentence, appVars, idealLen, idealCR, overflowed>>
  /\ UNCHANGED otherVars

\* a variant without the break of line 227
LoopingNoBreak(full) == full = full

\* the while loop goes on unless the break of line 227 was taken
Looping(full) == ~full

\* ProcessGPS, one iteration of the while loop
ProcessGPS_Read ==
  /\ pc = "while"
  /\ rx # <<>>
  /\ Looping(bFullSentence)
  /\ \E r \in {FramerStep(gpsResponse, packetOffset, buildingSentence, Head(rx))} :
     \E i \in {IdealStep(idealLen, idealCR, Head(rx))} :
       LET c == Head(rx)
           cleared == r.ovf \/ (c = Dollar /\ packetOffset # 0)
           kept == IF cleared THEN {}
                   ELSE IF c = Dollar
                   THEN stale \cup {k \in DOMAIN gpsResponse : gpsResponse[k] # NUL}
                   ELSE stale
       IN /\ gpsResponse' = r.buf
          /\ packetOffset' = r.off
          /\ buildingSentence' = r.building
          /\ bFullSentence' = r.full
          /\ log' = r.log
          /\ ev' = [Ev("read") EXCEPT !.c = c, !.widx = r.widx]
          /\ idealLen' = i.len
          /\ idealCR' = i.cr
          /\ idealEmit' = i.emit
          /\ overflowed' = IF c = Dollar THEN FALSE ELSE (overflowed \/ r.ovf)
          /\ stale' = kept \ {r.widx}
  /\ rx' = Tail(rx)
  /\ gpsTx' = <<>>
  /\ UNCHANGED <<pc, wire, sends, ticks, cycles, appVars>>
  /\ UNCHANGED otherVars

\* ProcessGPS from line 234 to its end, then the rest of loop()
ProcessGPS_End ==
  /\ pc = "while"
  /\ rx = <<>> \/ ~Looping(bFullSentence)
  /\ \E handed \in {~buildingSentence /\ bFullSentence} :
     \E d \in (IF handed THEN {Dispatch(view, App) : view \in FrameViews(gpsResponse)}
                ELSE {NoDispatch(App)}) :
     \E t \in {LoopTail(d.new, startingUp, lastCycleDevices)} :
        /\ gpsStatus' = d.new.gpsStatus
        /\ gpsTime' = d.new.gpsTime
        /\ timeSet' = d.new.timeSet
        /\ sysTime' = d.new.sysTime
        /\ eeprom' = d.new.eeprom
        /\ startingUp' = t.startingUp
        /\ lastCycleDevices' = t.lastCycleDevices
        /\ gpsTx' = d.tx \o t.tx
        /\ log' = d.log \o t.log
        /\ ev' = IF handed
                 THEN [Ev("end") EXCEPT !.handed = TRUE, !.frame = gpsResponse, !.cs = d.cs,
                                        !.spam = d.spam, !.ts = d.ts, !.rmc = d.rmc,
                                        !.tempTime = d.tempTime]
                 ELSE Ev("end")
        /\ IF handed
           THEN /\ gpsResponse' = Zeroed(GpsResponseSize)
                /\ packetOffset' = 0
                /\ stale' = {}
           ELSE UNCHANGED <<gpsResponse, packetOffset, stale>>
  /\ bFullSentence' = FALSE
  /\ pc' = "loop"
  /\ UNCHANGED <<envVars, buildingSentence, idealLen, idealCR, idealEmit, overflowed>>
  /\ UNCHANGED otherVars

(***************************************************************************)
(* Actions of the environment.                                             *)
(***************************************************************************)
\* the receiver emits a segment
Send ==
  /\ pc # "setup"
  /\ wire = <<>>
  /\ sends < MaxSends
  /\ \E seg \in Library : wire' = seg
  /\ sends' = sends + 1
  /\ ev' = Ev("env")
  /\ UNCHANGED <<pc, rx, ticks, cycles, framerVars, appVars, log, gpsTx, ghostVars>>
  /\ UNCHANGED otherVars

\* a byte arrives in the serial receive buffer
Arrive ==
  /\ wire # <<>>
  /\ Len(rx) < MaxRx
  /\ rx' = Append(rx, Head(wire))
  /\ wire' = Tail(wire)
  /\ ev' = Ev("env")
  /\ UNCHANGED <<pc, sends, ticks, cycles, framerVars, appVars, log, gpsTx, ghostVars>>
  /\ UNCHANGED otherVars

\* a second passes between two sentences (the clock's value is followed from
\* the moment it is set: no statement reads now() before that, lines 140
\* and 338)
Tick ==
  /\ pc = "loop"
  /\ timeSet
  /\ wire = <<>>
  /\ rx = <<>>
  /\ ticks < MaxTicks
  /\ ticks' = ticks + 1
  /\ sysTime' = sysTime + 1
  /\ UNCHANGED <<pc, wire, rx, sends, cycles, framerVars, gpsStatus, gpsTime, lastCycleDevices,
                 startingUp, timeSet, eeprom, log, gpsTx, ghostVars>>
  /\ ev' = Ev("env")
  /\ UNCHANGED otherVars

Next ==
  \/ Setup
  \/ LoopIdle
  \/ ProcessGPS_Begin
  \/ ProcessGPS_Read
  \/ ProcessGPS_End
  \/ Send
  \/ Arrive
  \/ Tick

Spec == Init /\ [][Next]_vars

(***************************************************************************)
(* The sketch across a power cycle: the RAM and the Arduino clock start    *)
(* over with the values of their declarations (lines 63-72), the store     *)
(* keeps the record, and setup() runs again.  Power is taken between two   *)
(* sentences; the store is written nowhere else than inside ProcessGPS.    *)
(* The store of the first start is one never configured, or one whose      *)
(* last fix is 65536 minutes older than EpochA.                            *)
(***************************************************************************)
EpochOld == EpochA - 65536 * 60

PowerStores ==
  {[configured |-> FALSE, lastGPSFix |-> 0, gpsFixType |-> 0],
   [configured |-> TRUE, lastGPSFix |-> EpochOld, gpsFixType |-> Ch3]}

InitPower == InitWith(PowerStores)

PowerCycle ==
  /\ pc = "loop"
  /\ wire = <<>>
  /\ rx = <<>>
  /\ cycles < MaxCycles
  /\ cycles' = cycles + 1
  /\ sends' = 0
  /\ pc' = "setup"
  /\ gpsResponse' = Zeroed(GpsResponseSize)
  /\ packetOffset' = 0
  /\ buildingSentence' = FALSE
  /\ bFullSentence' = FALSE
  /\ gpsStatus' = 0
  /\ gpsTime' = 0
  /\ lastCycleDevices' = 0
  /\ startingUp' = TRUE
  /\ timeSet' = FALSE
  /\ sysTime' = 0
  /\ log' = <<>>
  /\ gpsTx' = <<>>
  /\ ev' = Ev("power")
  /\ idealLen' = -1
  /\ idealCR' = FALSE
  /\ idealEmit' = FALSE
  /\ overflowed' = FALSE
  /\ stale' = {}
  /\ UNCHANGED <<wire, rx, ticks, eeprom>>
  /\ UNCHANGED otherVars

NextPower ==
  \/ Next
  \/ PowerCycle

SpecPower == InitPower /\ [][NextPower]_vars

(***************************************************************************)
(* The sketch behind a serial port that delivers whole segments: what the  *)
(* receiver emitted waits in the 80-byte receive buffer of AltSoftSerial   *)
(* until ProcessGPS reads it, so that several sentences can be available   *)
(* when ProcessGPS is called.                                              *)
(***************************************************************************)
SerialRxSize == 80

\* the segment on the wire arrives as a whole
ArriveAll ==
  /\ wire # <<>>
  /\ pc = "loop"
  /\ Len(rx) + Len(wire) <= SerialRxSize
  /\ rx' = rx \o wire
  /\ wire' = <<>>
  /\ ev' = Ev("env")
  /\ UNCHANGED <<pc, sends, ticks, cycles, framerVars, appVars, log, gpsTx, ghostVars>>
  /\ UNCHANGED otherVars

NextBatch ==
  \/ Setup
  \/ LoopIdle
  \/ ProcessGPS_Begin
  \/ ProcessGPS_Read
  \/ ProcessGPS_End
  \/ Send
  \/ ArriveAll
  \/ Tick

SpecBatch == Init /\ [][NextBatch]_vars

(***************************************************************************)
(* The sketch on a board whose EEPROM was never written: every cell holds  *)
(* 0xFF.  EEPROM.get(0, bEEConfigured) copies the byte 0xFF into a bool,   *)
(* and the test of line 91 goes either way with the build.  lastGPSFix is  *)
(* 0xFFFFFFFF; a time_t counts modulo 2^32 and this one is written as -1,  *)
(* the representative of 2^32 - 1 that the subtraction of line 481 treats  *)
(* alike.                                                                  *)
(***************************************************************************)
ErasedByte == 255

ErasedStores ==
  {[configured |-> b, lastGPSFix |-> -1, gpsFixType |-> ErasedByte] : b \in BOOLEAN}

InitErased == InitWith(ErasedStores)

SpecErased == InitErased /\ [][Next]_vars

(***************************************************************************)
(* The sketch on a receiver that emits well-formed sentences only, two at  *)
(* a time: the bytes arrive one by one or all at once.                     *)
(***************************************************************************)
WellFormed == {GSA3, RMC_C, GSV}

\* the receiver emits two sentences back to back
SendPair ==
  /\ pc # "setup"
  /\ wire = <<>>
  /\ sends < MaxSends
  /\ \E s1 \in WellFormed : \E s2 \in WellFormed : wire' = s1 \o s2
  /\ sends' = sends + 1
  /\ ev' = Ev("env")
  /\ UNCHANGED <<pc, rx, ticks, cycles, framerVars, appVars, log, gpsTx, ghostVars>>
  /\ UNCHANGED otherVars

NextPair ==
  \/ Setup
  \/ LoopIdle
  \/ ProcessGPS_Begin
  \/ ProcessGPS_Read
  \/ ProcessGPS_End
  \/ SendPair
  \/ Arrive
  \/ ArriveAll
  \/ Tick

SpecPair == Init /\ [][NextPair]_vars

(***************************************************************************)
(* The sketch on sentences that are as long as the frame buffer, as a      *)
(* receiver produces them when a terminator and the next start marker are  *)
(* lost: the segments arrive in pieces of at most SerialRxSize bytes.      *)
(***************************************************************************)
\* '$', 97 times 'A', CR, LF: 100 bytes
Full100 == <<Dollar>> \o [k \in 1 .. GpsResponseSize - 3 |-> 65] \o <<CR, LF>>
\* $GPRMC,181216.00*44,V,3245.73987,N,11709.12812,W,1..1,2..2,\r\n: 99 bytes,
\* the eighth comma after the time at index 96
Rmc99 ==
  <<36, 71, 80, 82, 77, 67, 44, 49, 56, 49, 50, 49, 54, 46, 48, 48, 42, 52, 52, 44, 86, 44, 51, 50, 52, 53, 46, 55, 51, 57, 56, 55, 44, 78, 44, 49, 49, 55, 48, 57, 46, 49, 50, 56, 49, 50, 44, 87, 44, 49, 49, 49, 49, 49, 49, 49, 49, 49, 49, 49, 49, 49, 49, 49, 49, 49, 49, 49, 49, 49, 49, 49, 44, 50, 50, 50, 50, 50, 50, 50, 50, 50, 50, 50, 50, 50, 50, 50, 50, 50, 50, 50, 50, 50, 50, 50, 44, 13, 10>>

LongLibrary == {Full100, Rmc99, GSA3, RMC_C}

\* the receiver emits a segment
SendLong ==
  /\ pc # "setup"
  /\ wire = <<>>
  /\ sends < MaxSends
  /\ \E seg \in LongLibrary : wire' = seg
  /\ sends' = sends + 1
  /\ ev' = Ev("env")
  /\ UNCHANGED <<pc, rx, ticks, cycles, framerVars, appVars, log, gpsTx, ghostVars>>
  /\ UNCHANGED otherVars

\* as much of the segment as the receive buffer holds arrives
ArriveSome ==
  /\ wire # <<>>
  /\ pc = "loop"
  /\ Len(rx) < SerialRxSize
  /\ \E k \in {IF Len(wire) <= SerialRxSize - Len(rx) THEN Len(wire)
                 ELSE SerialRxSize - Len(rx)} :
       /\ rx' = rx \o SubSeq(wire, 1, k)
       /\ wire' = SubSeq(wire, k + 1, Len(wire))
  /\ ev' = Ev("env")
  /\ UNCHANGED <<pc, sends, ticks, cycles, framerVars, appVars, log, gpsTx, ghostVars>>
  /\ UNCHANGED otherVars

NextLong ==
  \/ Setup
  \/ LoopIdle
  \/ ProcessGPS_Begin
  \/ ProcessGPS_Read
  \/ ProcessGPS_End
  \/ SendLong
  \/ ArriveSome
  \/ Tick

SpecLong == Init /\ [][NextLong]_vars

(***************************************************************************)
(* The codec of GPSTime.ino: the same two functions, the bytes XORed       *)
(* through a (byte) cast.                                                  *)
(***************************************************************************)
RECURSIVE GPSTime_XorRange(_, _, _)
GPSTime_XorRange(buf, from, to) ==
  IF from >= to THEN 0
  ELSE IF to - from = 1 THEN At(buf, from)
  ELSE LET mid == from + (to - from) \div 2
       IN BitXor(GPSTime_XorRange(buf, from, mid), GPSTime_XorRange(buf, mid, to))

GPSTime_CheckSum(pPacket) ==
  LET iSize == strlen(pPacket)
      iAstericks == FirstStar(pPacket, iSize)
      csIN == <<At(pPacket, iAstericks + 1), At(pPacket, iAstericks + 2)>>
      Calc == Sprintf02X(GPSTime_XorRange(pPacket, 1, iAstericks))
  IN IF iSize > 10 /\ iAstericks > 0 THEN csIN[1] = Calc[1] ELSE FALSE

GPSTime_SetCheckSum(pPacket, bufferSize) ==
  LET iSize == strlen(pPacket)
      Calc == Sprintf02X(GPSTime_XorRange(pPacket, 1, iSize))
  IN IF iSize + 5 <= bufferSize
     THEN [ok |-> TRUE,
           buf |-> [i \in DOMAIN pPacket |->
                      IF i = iSize THEN Star
                      ELSE IF i = iSize + 1 THEN Calc[1]
                      ELSE IF i = iSize + 2 THEN Calc[2]
                      ELSE IF i = iSize + 3 THEN CR
                      ELSE IF i = iSize + 4 THEN LF
                      ELSE pPacket[i]]]
     ELSE [ok |-> FALSE, buf |-> pPacket]

(***************************************************************************)
(* The codec called on its own: SetCheckSum on a command body, CheckSum on *)
(* the framed result, CheckSum again after one byte of an accepted         *)
(* sentence was replaced.  call.sketch says whose functions run.           *)
(***************************************************************************)
\* CheckSum gets as far as computing a checksum (both ifs are passed)
CheckSumComputes(pPacket) ==
  LET iSize == strlen(pPacket)
  IN iSize > 10 /\ FirstStar(pPacket, iSize) > 0

\* the characters sprintf writes into char Calc[3], the terminator included
CalcWritten(sketch, pPacket, to) ==
  Len(Sprintf02X(IF sketch = "part_001" THEN XorRange(pPacket, 1, to)
                 ELSE GPSTime_XorRange(pPacket, 1, to))) + 1

\* sprintf writes past the end of Calc
CalcOverrun(sketch, pPacket, to) == CalcWritten(sketch, pPacket, to) > 3

Sketches == {"part_001", "GPSTime"}

CodecBufferSize(sketch) ==
  IF sketch = "part_001" THEN SprintBufSize ELSE GPSTime_Pubx40Size

\* the destination buffers a body is framed in: the sketch's own, and the
\* ones that leave the body and its terminator zero to five spare bytes
CodecSizes(sketch, body) ==
  {CodecBufferSize(sketch)} \cup (Len(body) + 1 .. Len(body) + 6)

RECURSIVE Tails(_)
Tails(n) ==
  IF n = 0 THEN {<<>>}
  ELSE Tails(n - 1) \cup {Append(s, c) : s \in {x \in Tails(n - 1) : Len(x) = n - 1},
                                           c \in {88, Comma, 128}}

\* "$PUB" and up to MaxTail bytes among 'X', ',' and 0x80
CodecBodies == {SubSeq(PubxHead, 1, 4) \o s : s \in Tails(MaxTail)}

\* the bytes a replaced byte may become: 'P', 'Y', 0x80
ReplaceBytes == {80, 89, 128}

CodecCall(stage, from, sketch, body, buf, verdict, computed, pos) ==
  [stage |-> stage, from |-> from, sketch |-> sketch, body |-> body, buf |-> buf,
   verdict |-> verdict, computed |-> computed, pos |-> pos]

\* the part_001 sketch before setup, on a fresh store
SketchParked ==
  /\ pc = "setup"
  /\ wire = <<>>
  /\ rx = <<>>
  /\ sends = 0
  /\ ticks = 0
  /\ cycles = 0
  /\ gpsResponse = Zeroed(GpsResponseSize)
  /\ packetOffset = 0
  /\ buildingSentence = FALSE
  /\ bFullSentence = FALSE
  /\ gpsStatus = 0
  /\ gpsTime = 0
  /\ lastCycleDevices = 0
  /\ startingUp = TRUE
  /\ timeSet = FALSE
  /\ sysTime = 0
  /\ eeprom = [configured |-> FALSE, lastGPSFix |-> 0, gpsFixType |-> 0]
  /\ log = <<>>
  /\ gpsTx = <<>>
  /\ ev = [op |-> "none"]
  /\ idealLen = -1
  /\ idealCR = FALSE
  /\ idealEmit = FALSE
  /\ overflowed = FALSE
  /\ stale = {}

InitCodec ==
  /\ SketchParked
  /\ g = [pc |-> "off"]
  /\ p0 = [pc |-> "off"]
  /\ \E s \in Sketches, b \in CodecBodies :
     \E n \in CodecSizes(s, b) :
       call = CodecCall("body", "none", s, b, ToBuf(b, n), FALSE, FALSE, -1)

\* SetCheckSum(pPacket, sizeof(pPacket)) on the body; when sprintf overruns Calc the
\* call may also end with its stack frame damaged
Codec_SetCheckSum ==
  /\ call.stage = "body"
  /\ \E r \in {IF call.sketch = "part_001"
                 THEN SetCheckSum(call.buf, BufSize(call.buf))
                 ELSE GPSTime_SetCheckSum(call.buf, BufSize(call.buf))} :
       \/ call' = [call EXCEPT !.stage = IF r.ok THEN "framed" ELSE "refused",
                                !.from = "body", !.buf = r.buf]
       \/ /\ r.ok /\ CalcOverrun(call.sketch, call.buf, strlen(call.buf))
          /\ call' = [call EXCEPT !.stage = "smashed", !.from = "body"]
  /\ UNCHANGED <<sketchVars, g, p0>>

\* CheckSum on the packet
Codec_CheckSum ==
  /\ call.stage \in {"framed", "tampered"}
  /\ \E v \in {IF call.sketch = "part_001" THEN CheckSum(call.buf)
                 ELSE GPSTime_CheckSum(call.buf)} :
       \/ call' = [call EXCEPT !.stage = "checked", !.from = call.stage, !.verdict = v,
                                !.computed = CheckSumComputes(call.buf)]
       \/ /\ CheckSumComputes(call.buf)
          /\ CalcOverrun(call.sketch, call.buf, FirstStar(call.buf, strlen(call.buf)))
          /\ call' = [call EXCEPT !.stage = "smashed", !.from = call.stage]
  /\ UNCHANGED <<sketchVars, g, p0>>

\* one byte strictly between '$' and '*' of an accepted sentence is replaced
Codec_Tamper ==
  /\ call.stage = "checked" /\ call.from = "framed" /\ call.verdict
  /\ \E i \in 1 .. FirstStar(call.buf, strlen(call.buf)) - 1 :
     \E c \in ReplaceBytes \ {call.buf[i], Star, NUL} :
       call' = [call EXCEPT !.stage = "tampered", !.from = "checked",
                            !.buf = [call.buf EXCEPT ![i] = c], !.pos = i]
  /\ UNCHANGED <<sketchVars, g, p0>>

NextCodec ==
  \/ Codec_SetCheckSum
  \/ Codec_CheckSum
  \/ Codec_Tamper

SpecCodec == InitCodec /\ [][NextCodec]_vars

(***************************************************************************)
(* GPSTime.ino, one completed frame at a time.  Its handlers work on       *)
(* Arduino Strings; a String is a sequence here, with 0-based indices as   *)
(* in the source.                                                          *)
(***************************************************************************)
\* an int argument taken as unsigned int
U16(n) == n % Pow2(IntBits)

\* String::indexOf(char) and String::lastIndexOf(char)
StrIndexOf(s, c) ==
  LET hits == {i \in 0 .. Len(s) - 1 : s[i + 1] = c}
  IN IF hits = {} THEN -1 ELSE CHOOSE i \in hits : \A j \in hits : i <= j

StrLastIndexOf(s, c) ==
  LET hits == {i \in 0 .. Len(s) - 1 : s[i + 1] = c}
  IN IF hits = {} THEN -1 ELSE CHOOSE i \in hits : \A j \in hits : i >= j

\* String::substring(left, right)
StrSub(s, left, right) ==
  LET l == U16(left)
      r == U16(right)
      a == IF l > r THEN r ELSE l
      b == IF l > r THEN l ELSE r
  IN IF a >= Len(s) THEN <<>> ELSE SubSeq(s, a + 1, IF b > Len(s) THEN Len(s) ELSE b)

\* String::substring(beginIndex)
StrFrom(s, left) == StrSub(s, left, Len(s))

\* String::operator[]: 0 past the end
StrAt(s, i) == IF i >= 0 /\ i < Len(s) THEN s[i + 1] ELSE NUL

\* String::toInt() of a String of at most two characters
StrToInt(s) == atoi2(StrAt(s, 0), StrAt(s, 1))

\* the char a multi-character constant becomes when passed as a char: its
\* last character
MultiChar(lit) == lit[Len(lit)]

\* now() - t > bound in unsigned 32-bit arithmetic
ElapsedMoreThan(nowT, t, bound) == nowT < t \/ nowT - t > bound

GPSTime_SetSentencesFrom(pList, x, rowCount, cycleSetting) ==
  LET Cmd(k) == GPSTime_SetCheckSum(ToBuf(PubxCommand(pList[k], cycleSetting),
                                          GPSTime_Pubx40Size), GPSTime_Pubx40Size)
      F[k \in x .. rowCount + 1] ==
        IF k > rowCount THEN <<>>
        ELSE (IF Cmd(k).ok THEN <<CStr(Cmd(k).buf)>> ELSE <<>>) \o F[k + 1]
  IN F[x]

GPSTime_SetSentences(pList, rowCount, cycleSetting) ==
  [tx |-> GPSTime_SetSentencesFrom(pList, 1, rowCount, cycleSetting),
   log |-> <<Msg(IF cycleSetting = 0 THEN "BLOCKING:" ELSE "THROTTLING:", cycleSetting)>>]

\* Spam: always returns false
GPSTime_Spam(pResponse) ==
  IF SpamFound(pResponse)
  THEN LET a == GPSTime_SetSentences(spamList, RowCount(Len(spamList)), 0)
           b == GPSTime_SetSentences(throttleList, RowCount(Len(throttleList)),
                                     NMEA_CYCLE_REPORT)
       IN [res |-> FALSE, tx |-> a.tx \o b.tx,
           log |-> <<Msg("SPAM DETECTED", 0)>> \o a.log \o b.log]
  ELSE [res |-> FALSE, tx |-> <<>>, log |-> <<>>]

\* a variant that stores the fix whatever the clock's status
GPSTime_TimeSourceStoresUnset(pResponse, st) ==
  LET sParser == CStr(pResponse)
      iLastPacket == StrIndexOf(sParser, MultiChar(TokGSA))
      sGSA == StrFrom(sParser, iLastPacket - 5)
      iCrLf == StrIndexOf(sGSA, MultiChar(<<CR, LF>>))
      sQualified == StrSub(sGSA, 0, iCrLf)
      fixStatus == StrAt(sGSA, 9)
  IN IF /\ strstr(pResponse, TokGSA) # -1
        /\ iLastPacket >= 5
        /\ iCrLf > 0
        /\ GPSTime_CheckSum(ToBuf(sQualified, GPSTime_ResponseSize))
     THEN [res |-> TRUE,
           new |-> IF fixStatus = Ch1 THEN [st EXCEPT !.gpsInternalClock = TRUE]
                   ELSE IF fixStatus \in {Ch2, Ch3}
                   THEN [st EXCEPT !.gpsInternalClock = FALSE,
                                   !.eeprom.lastFix = st.now,
                                   !.eeprom.fixType = fixStatus]
                   ELSE st]
     ELSE [res |-> FALSE, new |-> st]

\* TimeSource, lines 244-281
GPSTime_TimeSource(pResponse, st) ==
  LET sParser == CStr(pResponse)
      iLastPacket == StrIndexOf(sParser, MultiChar(TokGSA))
      sGSA == StrFrom(sParser, iLastPacket - 5)
      iCrLf == StrIndexOf(sGSA, MultiChar(<<CR, LF>>))
      sQualified == StrSub(sGSA, 0, iCrLf)
      fixStatus == StrAt(sGSA, 9)
  IN IF /\ strstr(pResponse, TokGSA) # -1
        /\ iLastPacket >= 5
        /\ iCrLf > 0
        /\ GPSTime_CheckSum(ToBuf(sQualified, GPSTime_ResponseSize))
     THEN [res |-> TRUE,
           new |-> IF fixStatus = Ch1 THEN [st EXCEPT !.gpsInternalClock = TRUE]
                   ELSE IF fixStatus \in {Ch2, Ch3}
                   THEN IF st.timeSet
                        THEN [st EXCEPT !.gpsInternalClock = FALSE,
                                        !.eeprom.lastFix = st.now,
                                        !.eeprom.fixType = fixStatus]
                        ELSE [st EXCEPT !.gpsInternalClock = FALSE]
                   ELSE st]
     ELSE [res |-> FALSE, new |-> st]

\* sDate after the loop of lines 199-202 has run n times
RECURSIVE GPSTime_SkipFields(_, _)
GPSTime_SkipFields(sDate, n) ==
  IF n = 0 THEN sDate
  ELSE GPSTime_SkipFields(StrFrom(sDate, StrIndexOf(sDate, Comma) + 1), n - 1)

\* SyncTimeToGPS, lines 171-241
GPSTime_SyncTimeToGPS(pResponse, st) ==
  LET sParser == CStr(pResponse)
      iLastPacket == StrLastIndexOf(sParser, MultiChar(SubSeq(TokRMC, 1, 6)))
      sRMC == StrFrom(sParser, iLastPacket - 5)
      iStart == StrIndexOf(sRMC, MultiChar(TokRMC)) + 1
      sTime0 == StrFrom(sRMC, iStart)
      sTime == StrSub(sTime0, 0, StrIndexOf(sTime0, Comma) - 3)
      timed == iStart = 7
      sDate0 == GPSTime_SkipFields(StrFrom(sRMC, iStart), 8)
      sDate == StrSub(sDate0, 0, StrIndexOf(sDate0, Comma))
      tm == [Hour |-> IF timed THEN U8(StrToInt(StrSub(sTime, 0, 2))) ELSE 0,
             Minute |-> IF timed THEN U8(StrToInt(StrSub(sTime, 2, 4))) ELSE 0,
             Second |-> IF timed THEN U8(StrToInt(StrSub(sTime, 4, 6))) ELSE 0,
             Day |-> U8(StrToInt(StrSub(sDate, 0, 2))),
             Month |-> U8(StrToInt(StrSub(sDate, 2, 4))),
             Year |-> U8(StrToInt(StrSub(sDate, 4, 6)) + 30)]
      t == makeTime(tm)
      decay == Decay(t, st.now)
      who == IF st.gpsInternalClock THEN "TimeSet using BBR" ELSE "TimeSet using GPS"
  IN IF /\ strstr(pResponse, SubSeq(TokRMC, 1, 6)) # -1
        /\ iLastPacket >= 5
        /\ GPSTime_CheckSum(ToBuf(sRMC, GPSTime_ResponseSize))
        /\ Len(sDate) = 6
     THEN IF t > 0
          THEN IF ~st.timeSet
               THEN [st EXCEPT !.lastUpdateGPS = t, !.timeSet = TRUE, !.now = t,
                               !.log = @ \o <<Msg(who, 0)>>]
               ELSE IF decay # 0
               THEN [st EXCEPT !.lastUpdateGPS = t, !.now = t,
                               !.log = @ \o <<Msg("TIME mismatch: ", decay)>>]
               ELSE [st EXCEPT !.lastUpdateGPS = t]
          ELSE [st EXCEPT !.lastUpdateGPS = t]
     ELSE st

\* loop(), lines 98-121: the periodic report
GPSTime_Report(st) ==
  IF st.timeSet /\ (st.now < st.lastCycleDevices \/ st.now - st.lastCycleDevices >= 5)
  THEN [st EXCEPT !.lastCycleDevices = st.now,
                  !.log = <<Msg("GMT", st.now)>>
                          \o (IF /\ st.gpsInternalClock
                                 /\ st.eeprom.lastFix > 0
                                 /\ ToSigned(ElapsedMinutes(st.now, st.eeprom.lastFix)) > 10
                              THEN <<Msg("minutes since a fix",
                                         ToSigned(ElapsedMinutes(st.now, st.eeprom.lastFix)))>>
                              ELSE <<>>)]
  ELSE [st EXCEPT !.log = <<>>]

\* ProcessGPS, lines 372-395, on a completed frame
GPSTime_Dispatch(frame, st) ==
  LET sp == GPSTime_Spam(frame)
      ts == GPSTime_TimeSource(frame, st)
      due == ~st.timeSet \/ ElapsedMoreThan(st.now, st.lastUpdateGPS, SYNC_TIME_T_TO_GPS)
  IN IF ~GPSTime_CheckSum(frame)
     THEN [st EXCEPT !.log = @ \o <<Msg("CS-:", 0)>>, !.tx = <<>>]
     ELSE IF ts.res
     THEN [ts.new EXCEPT !.log = @ \o <<Msg("CS+:", 0)>> \o sp.log, !.tx = sp.tx]
     ELSE IF due
     THEN GPSTime_SyncTimeToGPS(frame, [st EXCEPT !.log = @ \o <<Msg("CS+:", 0)>> \o sp.log,
                                                  !.tx = sp.tx])
     ELSE [st EXCEPT !.log = @ \o <<Msg("CS+:", 0)>> \o sp.log, !.tx = sp.tx]

\* the frames the framer of GPSTime.ino completes: one terminated sentence
GPSTime_Frames ==
  {GSA1, GSA2, GSA3, GSA9, GSA3_BadDigit2, GSA3_BadDigit1, RMC_A, RMC_C,
   RMC_Empty, RMC_NoTime, GSV}

\* the store as the last run left it
GPSTime_InitialStores ==
  {[configured |-> FALSE, lastFix |-> 0, fixType |-> 0],
   [configured |-> TRUE, lastFix |-> EpochA - 900, fixType |-> Ch3]}

\* the program state of g, without its history
GPSTime_State(st) ==
  [gpsInternalClock |-> st.gpsInternalClock, lastUpdateGPS |-> st.lastUpdateGPS,
   timeSet |-> st.timeSet, now |-> st.now, eeprom |-> st.eeprom]

InitGPSTime ==
  /\ SketchParked
  /\ call = [stage |-> "none"]
  /\ p0 = [pc |-> "off"]
  /\ \E store \in GPSTime_InitialStores :
       g = [pc |-> "setup", sends |-> 0, ticks |-> 0, gpsInternalClock |-> TRUE,
            lastUpdateGPS |-> 0, lastCycleDevices |-> 0, timeSet |-> FALSE, now |-> 0,
            eeprom |-> store, log |-> <<>>, tx |-> <<>>,
            op |-> "none", frame |-> <<>>,
            pre |-> [gpsInternalClock |-> TRUE, lastUpdateGPS |-> 0, timeSet |-> FALSE,
                     now |-> 0, eeprom |-> store]]

\* setup(), lines 58-94
GPSTime_Setup ==
  /\ g.pc = "setup"
  /\ LET a == GPSTime_SetSentences(spamList, RowCount(Len(spamList)), 0)
         b == GPSTime_SetSentences(throttleList, RowCount(Len(throttleList)),
                                   NMEA_CYCLE_REPORT)
     IN g' = [g EXCEPT !.pc = "loop",
                       !.eeprom = IF g.eeprom.configured THEN g.eeprom
                                  ELSE [configured |-> TRUE, lastFix |-> g.lastUpdateGPS,
                                        fixType |-> NUL],
                       !.log = <<Msg("Starting", 0)>>
                               \o (IF g.eeprom.configured THEN <<>>
                                   ELSE <<Msg("Updating EEProm", 0)>>)
                               \o a.log \o b.log,
                       !.tx = a.tx \o b.tx,
                       !.op = "setup", !.frame = <<>>, !.pre = GPSTime_State(g)]
  /\ UNCHANGED <<sketchVars, call, p0>>

\* loop() when ProcessGPS completes no frame
GPSTime_LoopIdle ==
  /\ g.pc = "loop"
  /\ g' = [GPSTime_Report(g) EXCEPT !.tx = <<>>, !.op = "idle", !.frame = <<>>,
                                    !.pre = GPSTime_State(g)]
  /\ UNCHANGED <<sketchVars, call, p0>>

\* loop() when ProcessGPS completes a frame
GPSTime_Sentence ==
  /\ g.pc = "loop"
  /\ g.sends < MaxSends
  /\ \E s \in GPSTime_Frames :
     \E frame \in {ToBuf(s, GPSTime_ResponseSize)} :
     \E d \in {GPSTime_Dispatch(frame, GPSTime_Report(g))} :
       g' = [d EXCEPT !.sends = g.sends + 1, !.op = "sentence", !.frame = s,
                      !.pre = GPSTime_State(g)]
  /\ UNCHANGED <<sketchVars, call, p0>>

\* time passes: a second, or more than SYNC_TIME_T_TO_GPS seconds
GPSTime_Tick ==
  /\ g.pc = "loop"
  /\ g.timeSet
  /\ g.ticks < MaxTicks
  /\ \E d \in {1, SYNC_TIME_T_TO_GPS + 1} :
       g' = [g EXCEPT !.now = g.now + d, !.ticks = g.ticks + 1, !.op = "tick",
                      !.frame = <<>>, !.pre = GPSTime_State(g)]
  /\ UNCHANGED <<sketchVars, call, p0>>

NextGPSTime ==
  \/ GPSTime_Setup
  \/ GPSTime_LoopIdle
  \/ GPSTime_Sentence
  \/ GPSTime_Tick

SpecGPSTime == InitGPSTime /\ [][NextGPSTime]_vars

(***************************************************************************)
(* part_000, the earliest variant: setup() and loop() with the framer      *)
(* inside loop(), CheckSum on a String, TimeSource keeping warmStart and   *)
(* SyncTimeToGPS setting the clock from the fields.                        *)
(***************************************************************************)
P0_ResponseSize == 200
P0_Pubx40Size == 40

\* "RMC", "GSA" at rate 5, then "GSV", "GGA", "VTG" at rate 0
P0_SetupList ==
  <<<<<<82, 77, 67>>, 5>>, <<<<71, 83, 65>>, 5>>, <<<<71, 83, 86>>, 0>>,
    <<<<71, 71, 65>>, 0>>, <<<<86, 84, 71>>, 0>>>>

\* SetCheckSum, lines 264-284: the text of GPSTime.ino's
P0_SetCheckSum(pPacket, bufferSize) == GPSTime_SetCheckSum(pPacket, bufferSize)

\* CheckSum(String), lines 286-306
P0_CheckSum(sPacket) ==
  LET iAstericks == StrIndexOf(sPacket, Star)
      sCS == StrSub(sPacket, iAstericks + 1, iAstericks + 3)
      body == StrSub(sPacket, 1, iAstericks)
      Calc == Sprintf02X(GPSTime_XorRange(ToBuf(body, Len(body) + 1), 0, Len(body)))
  IN Len(sPacket) > 10 /\ iAstericks > 0 /\ sCS = Calc

\* TimeSource, lines 229-261
P0_TimeSource(pResponse, st) ==
  LET sParser == CStr(pResponse)
      iLastPacket == StrIndexOf(sParser, MultiChar(TokGSA))
      sGSA == StrFrom(sParser, iLastPacket - 5)
      iCrLf == StrIndexOf(sGSA, MultiChar(<<CR, LF>>))
      sQualified == StrSub(sGSA, 0, iCrLf)
      sFixStatus == StrAt(sGSA, 9)
  IN IF /\ strstr(pResponse, TokGSA) # -1
        /\ iLastPacket >= 5
        /\ iCrLf > 0
        /\ P0_CheckSum(sQualified)
     THEN [res |-> TRUE,
           new |-> [st EXCEPT !.warmStart = IF sFixStatus = Ch1 THEN TRUE
                                            ELSE IF sFixStatus \in {Ch2, Ch3} THEN FALSE
                                            ELSE @]]
     ELSE [res |-> FALSE, new |-> st]

\* SyncTimeToGPS, lines 161-227; setTime(hr, min, sec, day, month, yr) of
\* TimeLib adds 30 to a year below 100
P0_SyncTimeToGPS(pResponse, st) ==
  LET sParser == CStr(pResponse)
      iLastPacket == StrLastIndexOf(sParser, MultiChar(SubSeq(TokRMC, 1, 6)))
      sRMC == StrFrom(sParser, iLastPacket - 5)
      iStart == StrIndexOf(sRMC, MultiChar(TokRMC)) + 1
      sTime0 == StrFrom(sRMC, iStart)
      sTime == StrSub(sTime0, 0, StrIndexOf(sTime0, Comma) - 3)
      sDate0 == GPSTime_SkipFields(StrFrom(sRMC, iStart), 8)
      sDate == StrSub(sDate0, 0, StrIndexOf(sDate0, Comma))
      tm == [Hour |-> U8(StrToInt(StrSub(sTime, 0, 2))),
             Minute |-> U8(StrToInt(StrSub(sTime, 2, 4))),
             Second |-> U8(StrToInt(StrSub(sTime, 4, 6))),
             Day |-> U8(StrToInt(StrSub(sDate, 0, 2))),
             Month |-> U8(StrToInt(StrSub(sDate, 2, 4))),
             Year |-> U8(StrToInt(StrSub(sDate, 4, 6)) + 30)]
      t == makeTime(tm)
  IN IF /\ strstr(pResponse, SubSeq(TokRMC, 1, 6)) # -1
        /\ iLastPacket >= 5
        /\ P0_CheckSum(sRMC)
     THEN IF iStart = 7 /\ Len(sDate) = 6
          THEN [st EXCEPT !.timeSet = TRUE, !.now = t, !.lastUpdateGPS = t,
                          !.log = @ \o <<Msg("RMC Qualified:", 0),
                                         Msg(IF st.warmStart THEN "noGPS: " ELSE "GPS: ", t)>>]
          ELSE [st EXCEPT !.log = @ \o <<Msg("RMC Qualified:", 0)>>]
     ELSE st

\* lines 90-99 of loop(): the periodic report
P0_Report(st) ==
  IF st.timeSet /\ CycleDue(st.now, st.lastCycleDevices)
  THEN [st EXCEPT !.lastCycleDevices = st.now, !.log = <<Msg("gmt", st.now)>>]
  ELSE [st EXCEPT !.log = <<>>]

\* line 107: the condition of the while loop
P0_WhileGuard(avail, off) == avail # <<>> /\ off < P0_ResponseSize

\* lines 107-137: the while loop on the bytes available
RECURSIVE P0_While(_)
P0_While(st) ==
  IF ~P0_WhileGuard(st.rx, st.packetOffset) THEN st
  ELSE LET c == Head(st.rx)
           ovf == st.packetOffset >= P0_ResponseSize
           off == IF ovf THEN 0 ELSE st.packetOffset
           buf2 == Poke(st.response, off, c)
       IN IF c = Dollar
          THEN P0_While([st EXCEPT !.rx = Tail(@), !.buildingSentence = TRUE,
                                   !.response = Poke(IF off # 0 THEN Zeroed(P0_ResponseSize)
                                                     ELSE st.response, 0, c),
                                   !.packetOffset = 1, !.read = @ + 1])
          ELSE IF off > 2 /\ At(buf2, off - 1) = CR /\ At(buf2, off) = LF
          THEN [st EXCEPT !.rx = Tail(@), !.response = buf2, !.packetOffset = 0,
                          !.buildingSentence = FALSE, !.full = TRUE, !.read = @ + 1]
          ELSE P0_While([st EXCEPT !.rx = Tail(@), !.response = buf2,
                                   !.packetOffset = off + 1, !.read = @ + 1])

\* lines 139-155: the dispatch of a completed frame
P0_Dispatch(st) ==
  LET ts == P0_TimeSource(st.response, st)
      due == ~st.timeSet \/ ElapsedMoreThan(st.now, st.lastUpdateGPS, 60)
  IN IF ~P0_CheckSum(CStr(st.response))
     THEN [st EXCEPT !.log = @ \o <<Msg("CS-:", 0)>>]
     ELSE IF ts.res THEN ts.new
     ELSE IF due THEN P0_SyncTimeToGPS(st.response, st)
     ELSE st

\* loop(), lines 88-157
P0_LoopBody(st) ==
  LET r == [P0_Report(st) EXCEPT !.full = FALSE, !.read = 0]
      b == IF r.buildingSentence THEN r
           ELSE [r EXCEPT !.response = Zeroed(P0_ResponseSize), !.packetOffset = 0]
      w == P0_While(b)
  IN IF r.rx = <<>> THEN r
     ELSE IF ~w.buildingSentence /\ w.full THEN P0_Dispatch(w)
     ELSE w

\* '$' and 199 times 'A': fills response, no terminator
P0_Overlong == <<Dollar>> \o [k \in 1 .. P0_ResponseSize - 1 |-> 65]
\* 200 times 'A': fills response, no start marker, no terminator
P0_Noise == [k \in 1 .. P0_ResponseSize |-> 65]

P0_Library == {GSA1, GSA3, RMC_C, GSA3_BadDigit2, Partial, P0_Overlong, P0_Noise}

InitP0 ==
  /\ SketchParked
  /\ g = [pc |-> "off"]
  /\ call = [stage |-> "none"]
  /\ p0 = [pc |-> "setup", wire |-> <<>>, rx |-> <<>>, sends |-> 0, ticks |-> 0,
           response |-> Zeroed(P0_ResponseSize), packetOffset |-> 0,
           buildingSentence |-> FALSE, warmStart |-> TRUE, timeSet |-> FALSE, now |-> 0,
           lastUpdateGPS |-> 0, lastCycleDevices |-> 0, log |-> <<>>, tx |-> <<>>,
           op |-> "none", full |-> FALSE, read |-> 0]

\* setup(), lines 33-86
P0_Setup ==
  /\ p0.pc = "setup"
  /\ LET Cmd(k) == P0_SetCheckSum(ToBuf(PubxCommand(P0_SetupList[k][1], P0_SetupList[k][2]),
                                        P0_Pubx40Size), P0_Pubx40Size)
         F[k \in 1 .. Len(P0_SetupList) + 1] ==
           IF k > Len(P0_SetupList) THEN <<>>
           ELSE (IF Cmd(k).ok THEN <<CStr(Cmd(k).buf)>> ELSE <<>>) \o F[k + 1]
     IN p0' = [p0 EXCEPT !.pc = "loop", !.buildingSentence = FALSE, !.tx = F[1],
                         !.log = <<Msg("Starting", 0), Msg("Init nmea packets and cycles", 0)>>,
                         !.op = "setup"]
  /\ UNCHANGED <<sketchVars, g, call>>

\* one pass of loop()
P0_Loop ==
  /\ p0.pc = "loop"
  /\ \E r \in {P0_LoopBody(p0)} : p0' = [r EXCEPT !.op = "loop", !.tx = <<>>]
  /\ UNCHANGED <<sketchVars, g, call>>

\* the receiver emits a segment
P0_Send ==
  /\ p0.pc = "loop"
  /\ p0.wire = <<>>
  /\ p0.sends < MaxSends
  /\ \E seg \in P0_Library :
       p0' = [p0 EXCEPT !.wire = seg, !.sends = @ + 1, !.op = "env"]
  /\ UNCHANGED <<sketchVars, g, call>>

\* a byte arrives in the serial receive buffer
P0_Arrive ==
  /\ p0.pc = "loop"
  /\ p0.wire # <<>>
  /\ Len(p0.rx) < MaxRx
  /\ p0' = [p0 EXCEPT !.rx = Append(@, Head(p0.wire)), !.wire = Tail(@), !.op = "env"]
  /\ UNCHANGED <<sketchVars, g, call>>

\* time passes between two sentences: a second, or more than a minute
P0_Tick ==
  /\ p0.pc = "loop"
  /\ p0.timeSet
  /\ p0.wire = <<>>
  /\ p0.rx = <<>>
  /\ p0.ticks < MaxTicks
  /\ \E d \in {1, 61} :
       p0' = [p0 EXCEPT !.now = @ + d, !.ticks = @ + 1, !.op = "env"]
  /\ UNCHANGED <<sketchVars, g, call>>

NextP0 ==
  \/ P0_Setup
  \/ P0_Loop
  \/ P0_Send
  \/ P0_Arrive
  \/ P0_Tick

SpecP0 == InitP0 /\ [][NextP0]_vars

(***************************************************************************)
(* Vocabulary of the properties.                                           *)
(***************************************************************************)
Bbr(status) == bitRead(status, 1) = 1
Fix2D(status) == bitRead(status, 2) = 1
Fix3D(status) == bitRead(status, 3) = 1
TrustBits(status) == <<Bbr(status), Fix2D(status), Fix3D(status)>>
NoTrust(status) == TrustBits(status) = <<FALSE, FALSE, FALSE>>

Logged(m) == \E k \in 1 .. Len(log) : log[k] = m
LoggedTag(t) == \E k \in 1 .. Len(log) : log[k].tag = t

\* the last step handed a completed frame to CheckSum
Handed == ev.op = "end" /\ ev.handed
\* ... CheckSum accepted it and TimeSource took it as a fix-quality sentence
HandledGSA == Handed /\ ev.cs /\ ev.ts
\* ... CheckSum accepted it and SyncTimeToGPS took it as a time/date sentence
HandledRMC == Handed /\ ev.cs /\ ~ev.ts /\ ev.rmc
\* the fix character of the frame
FixChar == At(ev.frame, 9)

\* the buffer right after a start marker
StartOnly == [k \in 0 .. GpsResponseSize - 1 |-> IF k = 0 THEN Dollar ELSE NUL]

(***************************************************************************)
(* C1.  A candidate sentence is handed to CheckSum if and only if a start  *)
(* marker was received and is followed, before the frame buffer fills, by  *)
(* CR LF with no '$' in between: the loop breaks with a full sentence      *)
(* exactly on the bytes where the reference framer completes one, and the  *)
(* end of ProcessGPS hands a frame exactly then.                           *)
(***************************************************************************)
C1_FramedIffStartThenTerminator ==
  /\ pc = "while" => (bFullSentence <=> idealEmit)
  /\ ev.op = "end" => (ev.handed <=> idealEmit)

(***************************************************************************)
(* C2.  CheckSum accepts a packet only if both claimed hex digits after    *)
(* '*' equal the two uppercase hex digits of the XOR of the bytes strictly *)
(* between '$' and '*'.                                                    *)
(***************************************************************************)
C2_CheckSumComparesBothDigits ==
  Handed /\ ev.cs =>
    LET star == FirstStar(ev.frame, strlen(ev.frame))
    IN <<At(ev.frame, star + 1), At(ev.frame, star + 2)>>
         = Sprintf02X(XorRange(ev.frame, 1, star))

(***************************************************************************)
(* C3.  A time/date sentence processed by SyncTimeToGPS while none of bbr, *)
(* fix2D, fix3D is set leaves the clock's status and value unchanged.      *)
(***************************************************************************)
C3_UntrustedTimeLeavesClock ==
  HandledRMC /\ NoTrust(ev.pre.gpsStatus) =>
    timeSet = ev.pre.timeSet /\ sysTime = ev.pre.sysTime

\* an untrusted time/date sentence with a valid epoch was processed
C3_Witness ==
  HandledRMC /\ NoTrust(ev.pre.gpsStatus) /\ ev.tempTime = EpochA /\ ~timeSet

(***************************************************************************)
(* C4.  After a frame overflow no candidate sentence is handed to CheckSum *)
(* until a new start marker has been read.                                 *)
(***************************************************************************)
C4_NoFrameAfterOverflow == Handed => ~overflowed

(***************************************************************************)
(* C5.  The write cursor is always within 0..capacity, and every store     *)
(* into the frame buffer is at an index below the capacity.                *)
(***************************************************************************)
C5_CursorWithinCapacity ==
  /\ packetOffset \in 0 .. GpsResponseSize
  /\ ev.op = "read" => ev.widx \in 0 .. GpsResponseSize - 1

\* a byte was read with the cursor at the capacity
C5_Witness == ev.op = "read" /\ ev.poff = GpsResponseSize /\ ev.c # Dollar

(***************************************************************************)
(* C6.  Right after ProcessGPS reads a '$' the buffer is '$' followed by   *)
(* zeros, the cursor is 1 and buildingSentence is set; no buffer cell ever *)
(* holds a byte that arrived before the latest '$'.                        *)
(***************************************************************************)
C6_StartMarkerRestartsFrame ==
  /\ ev.op = "read" /\ ev.c = Dollar =>
       gpsResponse = StartOnly /\ packetOffset = 1 /\ buildingSentence
  /\ stale = {}

\* a '$' was read in the middle of a frame
C6_Witness == ev.op = "read" /\ ev.c = Dollar /\ ev.poff > 1 /\ ev.poff < GpsResponseSize

(***************************************************************************)
(* C7.  After a checksum-valid fix-quality sentence: '1' leaves fix2D and  *)
(* fix3D clear, '2' leaves fix2D set and fix3D clear, '3' leaves fix3D set *)
(* and fix2D clear, whatever the flags were.                               *)
(***************************************************************************)
C7_FixCharSetsFlags ==
  HandledGSA =>
    /\ FixChar = Ch1 => ~Fix2D(gpsStatus) /\ ~Fix3D(gpsStatus)
    /\ FixChar = Ch2 => Fix2D(gpsStatus) /\ ~Fix3D(gpsStatus)
    /\ FixChar = Ch3 => Fix3D(gpsStatus) /\ ~Fix2D(gpsStatus)

\* a '3' sentence was processed while fix2D was set
C7_Witness == HandledGSA /\ FixChar = Ch3 /\ Fix2D(ev.pre.gpsStatus)

(***************************************************************************)
(* C8.  A checksum-valid fix-quality sentence whose fix character is none  *)
(* of '1', '2', '3' changes no trust flag and raises an unexpected-input   *)
(* report.                                                                 *)
(***************************************************************************)
C8_UnexpectedFixCharKeepsFlags ==
  HandledGSA /\ FixChar \notin {Ch1, Ch2, Ch3} =>
    /\ TrustBits(gpsStatus) = TrustBits(ev.pre.gpsStatus)
    /\ Logged(Msg("TimeSource, unexpected char in [9]:", FixChar))

(***************************************************************************)
(* C9.  With the clock unset and fix3D set by a '3' sentence, a time/date  *)
(* sentence whose fields convert to epoch E > 0 leaves fix3D set, fix2D    *)
(* clear and the clock set to exactly E (RMC_A converts to EpochA, RMC_C   *)
(* to EpochC).                                                             *)
(***************************************************************************)
C9_Fix3ThenTimeSetsClock ==
  HandledRMC /\ ev.tempTime > 0 /\ ~ev.pre.timeSet /\ Fix3D(ev.pre.gpsStatus) =>
    /\ Fix3D(gpsStatus) /\ ~Fix2D(gpsStatus)
    /\ timeSet /\ sysTime = ev.tempTime
    /\ CStr(ev.frame) = RMC_A => sysTime = EpochA
    /\ CStr(ev.frame) = RMC_C => sysTime = EpochC

\* the clock was set from RMC_A after a '3' sentence
C9_Witness ==
  /\ HandledRMC /\ CStr(ev.frame) = RMC_A
  /\ ~ev.pre.timeSet /\ Fix3D(ev.pre.gpsStatus)
  /\ timeSet /\ sysTime = EpochA

(***************************************************************************)
(* C10.  With the clock set to E1 and a trust flag set, a time/date        *)
(* sentence with epoch E2 # E1 overwrites the clock to E2 and reports a    *)
(* decay correction of E2 - E1 seconds; with E2 = E1 the clock is left     *)
(* untouched.                                                              *)
(***************************************************************************)
C10_DecayCorrection ==
  HandledRMC /\ ev.tempTime > 0 /\ ev.pre.timeSet /\ ~NoTrust(ev.pre.gpsStatus) =>
    IF ev.tempTime # ev.pre.sysTime
    THEN sysTime = ev.tempTime /\ Logged(Msg("TIME mismatch: ", ev.tempTime - ev.pre.sysTime))
    ELSE sysTime = ev.pre.sysTime /\ ~LoggedTag("TIME mismatch: ")

(***************************************************************************)
(* C11.  Once the clock is set it stays set, whatever is received; and a   *)
(* step of the sketch changes the value of a set clock only when it        *)
(* processes a time/date sentence with a trust flag set whose epoch        *)
(* differs from the running clock, and then the clock takes that epoch.    *)
(***************************************************************************)
C11_ClockNeverUnset ==
  /\ ev.pre.timeSet => timeSet
  /\ ev.pre.timeSet /\ ev.op # "env" /\ sysTime # ev.pre.sysTime =>
       /\ HandledRMC /\ ~NoTrust(ev.pre.gpsStatus)
       /\ ev.tempTime # ev.pre.sysTime /\ sysTime = ev.tempTime

\* a set clock was overwritten by a time/date sentence
C11_Witness ==
  HandledRMC /\ ev.pre.timeSet /\ timeSet /\ sysTime # ev.pre.sysTime

\* the frame is a time/date sentence with an empty time field and six digits
\* in its date field
EmptyTimeValidDate(frame) ==
  LET d == EighthComma(frame, 0, 7) + 1
  IN /\ MatchAt(frame, TokRMC, 0)
     /\ At(frame, 7) = Comma
     /\ d > 0
     /\ \A k \in 0 .. 5 : IsDigit(At(frame, d + k))
     /\ At(frame, d + 6) = Comma

(***************************************************************************)
(* C12.  A checksum-valid $GPRMC sentence whose time field is empty and    *)
(* whose date field is a valid DDMMYY yields no time event: the clock's    *)
(* status and value are what they were, even with a trust flag set.        *)
(***************************************************************************)
C12_EmptyTimeYieldsNoEvent ==
  HandledRMC /\ EmptyTimeValidDate(ev.frame) =>
    timeSet = ev.pre.timeSet /\ sysTime = ev.pre.sysTime

(***************************************************************************)
(* C17.  A completed frame that fails CheckSum is logged and discarded:    *)
(* the trust flags, the clock, the last-fix epoch and the persisted record *)
(* are what they were, nothing is written to the receiver, and neither     *)
(* Spam nor TimeSource nor SyncTimeToGPS has seen the frame.               *)
(***************************************************************************)
C17_FailedCheckSumChangesNothing ==
  Handed /\ ~CheckSum(ev.frame) =>
    /\ LoggedTag("CS-:")
    /\ gpsStatus = ev.pre.gpsStatus
    /\ timeSet = ev.pre.timeSet /\ sysTime = ev.pre.sysTime
    /\ gpsTime = ev.pre.gpsTime
    /\ eeprom = ev.pre.eeprom
    /\ gpsTx = <<>>
    /\ ~ev.spam /\ ~ev.ts /\ ~ev.rmc

\* a '3' sentence with a wrong checksum was discarded while bbr was set
C17_Witness ==
  /\ Handed /\ ~ev.cs /\ CStr(ev.frame) = GSA3_BadDigit1
  /\ Bbr(ev.pre.gpsStatus) /\ Bbr(gpsStatus)

(***************************************************************************)
(* C19.  After setup the persisted record is written only while a          *)
(* fix-quality sentence reporting '2' or '3' is processed with the clock   *)
(* set; processing a time/date sentence never writes the store.            *)
(***************************************************************************)
C19_StoreWrittenOnlyByFixSentence ==
  ev.op # "setup" /\ eeprom # ev.pre.eeprom =>
    HandledGSA /\ FixChar \in {Ch2, Ch3} /\ ev.pre.timeSet

(***************************************************************************)
(* C20.  setup on a store whose first-run flag is clear sets the flag and  *)
(* writes lastGPSFix = 0 and gpsFixType = 0, and _gpsTime is 0; on a store *)
(* whose flag is set it leaves the store as it is; either way setup ends   *)
(* and loop() runs.                                                        *)
(***************************************************************************)
C20_SetupInitialisesStore ==
  ev.op = "setup" =>
    /\ pc = "loop"
    /\ IF ev.pre.eeprom.configured
       THEN eeprom = ev.pre.eeprom /\ gpsTime = eeprom.lastGPSFix
       ELSE /\ eeprom = [configured |-> TRUE, lastGPSFix |-> 0, gpsFixType |-> 0]
            /\ gpsTime = 0

\* setup has run on a store that held a record
C20_Witness ==
  ev.op = "setup" /\ ev.pre.eeprom.configured /\ eeprom.lastGPSFix # 0 /\ pc = "loop"

\* the XOR of the bytes s[from..to] as 8-bit values
RECURSIVE Xor8(_, _, _)
Xor8(s, from, to) == IF from > to THEN 0 ELSE BitXor(Xor8(s, from, to - 1), s[to])

\* a byte as two uppercase hex digits
Hex2(v) == <<HexDigit(v \div 16), HexDigit(v % 16)>>

\* the last codec call was CheckSum on the result of SetCheckSum
CheckedFramed == call.stage = "checked" /\ call.from = "framed"
\* the last codec call was CheckSum on a sentence with one byte replaced
CheckedTampered == call.stage = "checked" /\ call.from = "tampered"

(***************************************************************************)
(* C13.  Round trip: for a body that starts with '$', holds no '*' and     *)
(* fits the buffer, CheckSum accepts what SetCheckSum has framed (bodies   *)
(* whose framed result has the minimum length of 10 bytes or more).        *)
(***************************************************************************)
C13_RoundTrip ==
  /\ CheckedFramed
  /\ call.body[1] = Dollar /\ (\A k \in 1 .. Len(call.body) : call.body[k] # Star)
  /\ strlen(call.buf) >= 10
  => call.verdict

(***************************************************************************)
(* C14.  When the body fits, SetCheckSum leaves the body as it is and      *)
(* appends '*', the two uppercase hex digits of the XOR of the bytes after *)
(* the '$', CR and LF.                                                     *)
(***************************************************************************)
C14_TrailerAppended ==
  call.stage \in {"framed", "smashed"} /\ call.from = "body" =>
    /\ call.stage = "framed"
    /\ CStr(call.buf) = call.body \o <<Star>> \o Hex2(Xor8(call.body, 2, Len(call.body)))
                          \o <<CR, LF>>

(***************************************************************************)
(* C15.  Replacing one byte strictly between '$' and '*' of a sentence     *)
(* CheckSum accepts by a different byte (not '*', not NUL) gives a         *)
(* sentence CheckSum rejects.                                              *)
(***************************************************************************)
C15_SingleByteChangeRejected == CheckedTampered => ~call.verdict

(***************************************************************************)
(* C16.  CheckSum rejects without computing a checksum exactly the inputs  *)
(* shorter than 10 bytes: an input of 10 bytes or more with a '*' in it    *)
(* gets its checksum computed and compared.                                *)
(***************************************************************************)
C16_RejectsExactlyShortInputs ==
  call.stage = "checked" =>
    /\ strlen(call.buf) < 10 => ~call.verdict /\ ~call.computed
    /\ strlen(call.buf) >= 10 /\ FirstStar(call.buf, strlen(call.buf)) > 0 => call.computed

\* GPSTime.ino has just processed a fix-quality sentence whose two checksum
\* digits are those of its body
GPSTime_ValidGSA ==
  /\ g.pc = "loop" /\ g.op = "sentence"
  /\ SubSeq(g.frame, 1, 6) = TokGSA
  /\ LET star == StrIndexOf(g.frame, Star)
     IN /\ star > 0
        /\ SubSeq(g.frame, star + 2, star + 3) = Hex2(Xor8(g.frame, 2, star))

(***************************************************************************)
(* C18.  In GPSTime.ino a checksum-valid fix-quality sentence reporting    *)
(* '2' or '3' while the clock is set stores lastFix = now() and            *)
(* fixType = that character; with the clock not set, or with '1', the      *)
(* store is left as it is.                                                 *)
(***************************************************************************)
C18_FixStoredOnlyWithClockSet ==
  GPSTime_ValidGSA =>
    LET fix == StrAt(g.frame, 9)
    IN /\ fix \in {Ch2, Ch3} /\ g.pre.timeSet =>
            g.eeprom = [g.pre.eeprom EXCEPT !.lastFix = g.pre.now, !.fixType = fix]
       /\ ~g.pre.timeSet \/ fix = Ch1 => g.eeprom = g.pre.eeprom

\* a '2' sentence was stored over a record of another second and kind
C18_Witness ==
  /\ GPSTime_ValidGSA /\ StrAt(g.frame, 9) = Ch2 /\ g.pre.timeSet
  /\ g.eeprom.fixType = Ch2 /\ g.pre.eeprom.fixType = Ch3
  /\ g.eeprom.lastFix = g.now /\ g.pre.eeprom.lastFix # g.now

(***************************************************************************)
(* C21.  The record survives a power cycle: setup on a store holding a     *)
(* record with last fix E leaves _gpsTime = E, and each time DisplayTime   *)
(* runs while bbr is the only trust flag set it reports a decay of         *)
(* (now - E) / 60 minutes.                                                 *)
(***************************************************************************)
C21_RecordSurvivesPowerCycle ==
  /\ (ev.op = "setup" /\ ev.pre.eeprom.configured =>
        gpsTime = ev.pre.eeprom.lastGPSFix)
  /\ (LoggedTag("GMT:") /\ TrustBits(gpsStatus) = <<TRUE, FALSE, FALSE>> =>
        Logged(Msg("GMT:", (sysTime - eeprom.lastGPSFix) \div 60)))

\* a body with the trailer NMEA 0183 gives it: '*', the XOR of the bytes after
\* '$' as two hex digits, CR, LF
NmeaFramed(body) ==
  body \o <<Star>> \o Hex2(Xor8(body, 2, Len(body))) \o <<CR, LF>>

\* "$PUBX,40,<name>,0,<rate>,0,0,0,0" with rate one of '0', "10"
RateCommand(name, rate) ==
  <<36, 80, 85, 66, 88, 44, 52, 48, 44>> \o name \o <<44, 48, 44>> \o rate
    \o <<44, 48, 44, 48, 44, 48, 44, 48>>

\* GSV, GGA, VTG, GLL at rate 0, then RMC, GSA at rate 10
SpamReply ==
  <<NmeaFramed(RateCommand(<<71, 83, 86>>, <<48>>)),
    NmeaFramed(RateCommand(<<71, 71, 65>>, <<48>>)),
    NmeaFramed(RateCommand(<<86, 84, 71>>, <<48>>)),
    NmeaFramed(RateCommand(<<71, 76, 76>>, <<48>>)),
    NmeaFramed(RateCommand(<<82, 77, 67>>, <<49, 48>>)),
    NmeaFramed(RateCommand(<<71, 83, 65>>, <<49, 48>>))>>

\* the frame holds the type token of a suppressed sentence
HasSuppressedToken(frame) ==
  \E tok \in {<<71, 83, 86>>, <<71, 71, 65>>, <<86, 84, 71>>, <<71, 76, 76>>} :
    strstr(frame, tok) # -1

(***************************************************************************)
(* C22.  When CheckSum has accepted a frame that holds the token GSV, GGA, *)
(* VTG or GLL, the step writes to the receiver the rate-0 command of each  *)
(* of the four suppressed types and then the rate-10 command of RMC and of *)
(* GSA, each with its NMEA trailer, once; when the frame is neither a      *)
(* fix-quality nor a time/date sentence the trust flags, the clock and the *)
(* record are what they were.                                              *)
(***************************************************************************)
C22_SpamResendsRates ==
  Handed /\ ev.cs /\ HasSuppressedToken(ev.frame) =>
    /\ gpsTx = SpamReply
    /\ Cardinality({k \in 1 .. Len(log) : log[k].tag = "SPAM DETECTED"}) = 1
    /\ (~ev.ts /\ ~ev.rmc => App = ev.pre)

\* a GSV sentence was accepted and answered
C22_Witness ==
  /\ Handed /\ ev.cs /\ HasSuppressedToken(ev.frame)
  /\ At(ev.frame, 0) = Dollar
  /\ ~ev.ts /\ ~ev.rmc
  /\ Len(gpsTx) = 6

(***************************************************************************)
(* C23.  A step that takes an accepted frame as a fix-quality sentence     *)
(* changes the trust flags only: the clock is set or unset as before and   *)
(* reads the same value, and the rmc flag, _gpsTime and the record are     *)
(* what they were.                                                         *)
(***************************************************************************)
C23_FixSentenceLeavesClock ==
  HandledGSA =>
    /\ timeSet = ev.pre.timeSet
    /\ sysTime = ev.pre.sysTime
    /\ gpsTime = ev.pre.gpsTime
    /\ eeprom = ev.pre.eeprom
    /\ bitRead(gpsStatus, 0) = bitRead(ev.pre.gpsStatus, 0)

\* a fix-quality sentence took every trust flag away from a set clock
C23_Witness ==
  HandledGSA /\ ev.pre.timeSet /\ ~NoTrust(ev.pre.gpsStatus) /\ NoTrust(gpsStatus)

(***************************************************************************)
(* C24.  In every reachable state the flags fix2D and fix3D are not both   *)
(* set.                                                                    *)
(***************************************************************************)
C24_Fix2DFix3DExclusive ==
  ~(Fix2D(gpsStatus) /\ Fix3D(gpsStatus))

\* a fix-quality sentence reporting '3' was processed while fix2D was set
C24_Witness ==
  HandledGSA /\ FixChar = Ch3 /\ Fix2D(ev.pre.gpsStatus) /\ Fix3D(gpsStatus)

DateYears == {0, 1, 22, 37}
DateMonths == {0, 1, 7, 12}
DateDays == {0, 1, 16, 31}
DateHours == {0, 18}

\* two decimal digits
D2(n) == <<48 + (n \div 10), 48 + (n % 10)>>

\* $GPRMC,hh0000.00,V,,,,,,,ddmmyy,,,N with its trailer
RmcSentence(hh, dd, mm, yy) ==
  NmeaFramed(TokRMC \o D2(hh) \o <<48, 48, 48, 48, 46, 48, 48, 44, 86, 44, 44, 44, 44, 44,
                                   44, 44>>
             \o D2(dd) \o D2(mm) \o D2(yy) \o <<44, 44, 44, 78>>)

\* the time authority of a sketch that has seen "$GPGSA,A,3" and no time yet
HoldingFix3 ==
  [gpsStatus |-> bitSet(0, 3), gpsTime |-> 0, timeSet |-> FALSE, sysTime |-> 0,
   eeprom |-> [configured |-> TRUE, lastGPSFix |-> 0, gpsFixType |-> 0]]

InitDate ==
  /\ SketchParked
  /\ g = [pc |-> "off"]
  /\ p0 = [pc |-> "off"]
  /\ \E hh \in DateHours, dd \in DateDays, mm \in DateMonths, yy \in DateYears :
       call = [stage |-> "sentence", hh |-> hh, dd |-> dd, mm |-> mm, yy |-> yy,
               frame |-> ToBuf(RmcSentence(hh, dd, mm, yy), GpsResponseSize)]

\* lines 236-253 on the sentence: CheckSum, Spam, TimeSource, SyncTimeToGPS
Date_Dispatch ==
  /\ call.stage = "sentence"
  /\ \E d \in {Dispatch(call.frame, HoldingFix3)} :
     \E x \in {Extract(call.frame, strstr(call.frame, TokRMC))} :
       call' = [stage |-> "synced", hh |-> call.hh, dd |-> call.dd, mm |-> call.mm,
                yy |-> call.yy, frame |-> call.frame, cs |-> d.cs, rmc |-> d.rmc,
                tm |-> x.tm, tempTime |-> d.tempTime, new |-> d.new]
  /\ UNCHANGED <<sketchVars, g, p0>>

NextDate ==
  \/ Date_Dispatch

SpecDate == InitDate /\ [][NextDate]_vars

\* days from 1 Jan 1970 to 1 Jan of year Y, for 1970 <= Y <= 2100
DaysToYear(Y) == 365 * (Y - 1970) + (Y - 1969) \div 4

(***************************************************************************)
(* C26.  A checksum-valid $GPRMC sentence whose date field has a day and a *)
(* month above zero and a two-digit year YY from 00 to 69 is accepted by   *)
(* SyncTimeToGPS: the year offset it extracts is YY + 30, and the epoch it *)
(* hands on lies in the calendar year 2000 + YY.                           *)
(***************************************************************************)
C26_YearsFrom2000Accepted ==
  call.stage = "synced" /\ call.dd > 0 /\ call.mm > 0 /\ call.yy \in 0 .. 69 =>
    /\ call.cs /\ call.rmc
    /\ call.tm.Year = call.yy + 30
    /\ call.tempTime >= DaysToYear(2000 + call.yy) * SECS_PER_DAY
    /\ call.tempTime < DaysToYear(2001 + call.yy) * SECS_PER_DAY
    /\ call.new.timeSet /\ call.new.sysTime = call.tempTime

\* the bytes waiting in the serial input hold a complete sentence
SentenceWaiting ==
  \E k \in 1 .. Len(rx) - 1 : rx[1] = Dollar /\ rx[k] = CR /\ rx[k + 1] = LF

(***************************************************************************)
(* C27.  One call of ProcessGPS hands at most one completed frame on:      *)
(* once a frame is complete the call consumes no further byte, whatever    *)
(* waits in the serial input, and it is that frame that CheckSum gets when *)
(* the call ends.                                                          *)
(***************************************************************************)
C27_OneFramePerCall ==
  [][pc = "while" /\ bFullSentence =>
       /\ Len(rx') >= Len(rx)
       /\ pc' = "loop" => ev'.handed /\ ev'.frame = gpsResponse]_vars

\* a frame was handed on while a complete sentence was waiting behind it
C27_Witness ==
  Handed /\ SentenceWaiting

(***************************************************************************)
(* C28.  In every reachable state the clock is unset, or it is set and     *)
(* exactly one of bbr, fix2D and fix3D is set.                             *)
(***************************************************************************)
C28_SetClockHasOneTrustFlag ==
  timeSet =>
    Cardinality({n \in {1, 2, 3} : bitRead(gpsStatus, n) = 1}) = 1

(***************************************************************************)
(* C29.  In part_000 an overflow of the frame buffer is not fatal: in      *)
(* every reachable state in which bytes are available, the next pass of    *)
(* loop() consumes at least one of them, so that a sentence that follows   *)
(* is framed.                                                              *)
(***************************************************************************)
C29_AvailableBytesAreRead ==
  p0.pc = "loop" /\ p0.rx # <<>> => P0_LoopBody(p0).read > 0

(***************************************************************************)
(* C30.  Every completed frame handed to CheckSum holds a NUL inside the   *)
(* frame buffer, and every index that CheckSum, TimeSource and             *)
(* SyncTimeToGPS read while they process it lies between 0 and the         *)
(* capacity less one.                                                      *)
(***************************************************************************)
C30_ReadsStayInsideFrameBuffer ==
  Handed =>
    /\ strlen(ev.frame) < GpsResponseSize
    /\ DispatchReads(ev.frame) \subseteq 0 .. GpsResponseSize - 1

(***************************************************************************)
(* C31.  The frame buffer holds the start marker '$' at no index other     *)
(* than 0: a frame handed to CheckSum holds at most one '$', and every     *)
(* occurrence in it of "$GPGSA" or "$GPRMC," is at index 0, so the first   *)
(* and the last occurrence of a sentence type coincide.                    *)
(***************************************************************************)
\* the indices of the buffer where pat occurs
Occurrences(buf, pat) == {i \in DOMAIN buf : MatchAt(buf, pat, i)}

Held ==
  IF pc = "while" /\ bFullSentence THEN [k \in 1 .. packetOffset + 1 |-> gpsResponse[k - 1]]
  ELSE IF buildingSentence THEN [k \in 1 .. packetOffset |-> gpsResponse[k - 1]]
  ELSE <<>>

Remainder == Held \o rx \o wire

C32_NoByteLostBetweenSentences ==
  [][IF ev'.op = "end" /\ ev'.handed
     THEN /\ CStr(ev'.frame) \in WellFormed
          /\ Remainder = CStr(ev'.frame) \o Remainder'
     ELSE IF wire = <<>> /\ wire' # <<>>
     THEN Remainder' = Remainder \o wire'
     ELSE Remainder' = Remainder]_vars

\* GSA3 and RMC_C came back to back in one segment and both were handed
\* over: the clock is set from the second
C32_Witness ==
  /\ Handed /\ CStr(ev.frame) = RMC_C
  /\ sends = 1 /\ rx = <<>> /\ wire = <<>>
  /\ Fix3D(gpsStatus) /\ timeSet /\ sysTime = EpochC


(***************************************************************************)
(* C33.  At most one of bbr, fix2D, fix3D is set in every reachable state; *)
(* only a checksum-valid fix-quality sentence changes them (a time/date    *)
(* sentence sets rmcSeen and leaves the three as they are).                *)
(***************************************************************************)
C33_AtMostOneTrustFlag ==
  /\ Cardinality({n \in {1, 2, 3} : bitRead(gpsStatus, n) = 1}) <= 1
  /\ ~HandledGSA => TrustBits(gpsStatus) = TrustBits(ev.pre.gpsStatus)

\* a '3' sentence was processed while bbr was set: fix3D is the one flag set
C33_Witness ==
  /\ HandledGSA /\ FixChar = Ch3 /\ Bbr(ev.pre.gpsStatus)
  /\ TrustBits(gpsStatus) = <<FALSE, FALSE, TRUE>>


(***************************************************************************)
(* C34.  rmcSeen (bit 0 of _gpsStatus) is never cleared once set, and it   *)
(* is set whenever the clock is set; DisplayTime runs only with the clock  *)
(* set and never prints "GMT:GPRMC MISSING".                               *)
(***************************************************************************)
RmcSeen(status) == bitRead(status, 0) = 1

C34_RmcSeenWhileClockSet ==
  /\ RmcSeen(ev.pre.gpsStatus) => RmcSeen(gpsStatus)
  /\ timeSet => RmcSeen(gpsStatus)
  /\ LoggedTag("GMT:") \/ LoggedTag("GMT:GPRMC MISSING") => timeSet /\ ~startingUp
  /\ ~LoggedTag("GMT:GPRMC MISSING")

\* DisplayTime printed the time in the pass that processed a fix-quality
\* sentence, after the clock was set
C34_Witness ==
  /\ HandledGSA /\ RmcSeen(ev.pre.gpsStatus) /\ ev.pre.timeSet
  /\ LoggedTag("GMT:")


(***************************************************************************)
(* C35.  After setup the stored lastGPSFix equals _gpsTime and the stored  *)
(* fix type is 0, '2' or '3'; a time/date sentence that writes the record  *)
(* writes '2' exactly when fix2D is set and '3' exactly when fix3D is set, *)
(* and the record changes only then.                                       *)
(***************************************************************************)
C35_StoreMirrorsLastFix ==
  pc # "setup" =>
    /\ eeprom.lastGPSFix = gpsTime
    /\ eeprom.gpsFixType \in {NUL, Ch2, Ch3}
    /\ HandledRMC /\ ev.tempTime > 0 /\ (Fix2D(gpsStatus) \/ Fix3D(gpsStatus)) =>
         /\ eeprom.lastGPSFix = ev.tempTime
         /\ eeprom.gpsFixType = Ch2 <=> Fix2D(gpsStatus)
         /\ eeprom.gpsFixType = Ch3 <=> Fix3D(gpsStatus)
    /\ ev.op # "setup" /\ eeprom # ev.pre.eeprom =>
         HandledRMC /\ ev.tempTime > 0 /\ (Fix2D(gpsStatus) \/ Fix3D(gpsStatus))


(***************************************************************************)
(* C36.  In part_001 the XOR accumulator of SetCheckSum and of CheckSum    *)
(* stays within 0..255 for bodies of any byte values, so sprintf "%02X"    *)
(* produces two hex characters and the call never writes past Calc[3].     *)
(***************************************************************************)
C36_AccumulatorFitsTwoHexDigits ==
  /\ call.stage # "none" /\ call.sketch = "part_001" /\ call.from = "body"
       /\ call.stage \in {"framed", "smashed"} =>
       LET acc == XorRange(ToBuf(call.body, Len(call.body) + 1), 1, Len(call.body))
       IN acc \in 0 .. 255 /\ Len(Sprintf02X(acc)) = 2 /\ call.stage = "framed"
  /\ call.stage # "none" /\ call.sketch = "part_001" /\ call.from \in {"framed", "tampered"}
       /\ call.stage \in {"checked", "smashed"} /\ CheckSumComputes(call.buf) =>
       LET acc == XorRange(call.buf, 1, FirstStar(call.buf, strlen(call.buf)))
       IN acc \in 0 .. 255 /\ Len(Sprintf02X(acc)) = 2 /\ call.stage = "checked"

====
